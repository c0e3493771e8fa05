---------------------------- MODULE MCWeakPointer ----------------------------
\* Model values for WeakPointer.
EXTENDS WeakPointer

CONSTANTS t1, t2, a, b, c, d, m1, m2

MCThreads == {t1, t2}
MCThread == {t1}
MCFour == {a, b, c, d}
MCThree == {a, b, c}
MCTwo == {a, b}
MCOne == {a}
MCMonitors == {m1, m2}
=============================================================================
