------------------------------- MODULE MCUnwind -------------------------------
\* Model values for Unwind: A extends E.
EXTENDS Unwind

CONSTANTS A, E, code, o, nested, inRow

MCFunctions == {nested, inRow}
MCClasses == {A, E}
MCCodes == {code}
MCIsBaseOf == {<<A, A>>, <<A, E>>, <<E, E>>}
MCObjects == {o}

Try(s, e, p, c) == [start |-> s, end |-> e, prev |-> p, catches |-> c]

\* Three nested sections; two sections one after the other.
MCTable ==
    [f \in MCFunctions |->
        IF f = nested
        THEN <<Try(1, 6, 0, <<E>>), Try(2, 5, 1, <<>>), Try(3, 4, 2, <<A>>)>>
        ELSE <<Try(1, 3, 0, <<>>), Try(4, 6, 0, <<A, E>>)>>]
=============================================================================
