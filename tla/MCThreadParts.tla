---------------------------- MODULE MCThreadParts ----------------------------
EXTENDS ThreadParts

\* One thread; two contexts of two threads; as many contexts as threads.
SomeShapes == {<<1, 1>>, <<4, 2>>, <<3, 3>>}

\* Another number of cores of each kind.
SomeCores == [PHYSICAL |-> 2, ALL |-> 3]
===============================================================================
