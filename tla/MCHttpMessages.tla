---------------------------- MODULE MCHttpMessages ----------------------------
EXTENDS HttpMessages

\* "PUT"
SomeMethods == {<<80, 85, 84>>}

\* "/", and one the wire cannot carry.
SomePaths == {<<47>>, <<47, 32, 97>>}

\* An empty value, and keys and values made of separators.
SomeParams == {<<<<113>>, <<>>>>, <<<<38>>, <<61, 32>>>>, <<<<113>>, <<37, 43>>>>}

\* "t: 1", "host: a:b", and "content-length: 9"
SomeFields == {<<<<116>>, <<49>>>>, <<<<104>>, <<97, 58, 98>>>>,
               <<<<99, 111, 110, 116, 101, 110, 116, 45, 108, 101, 110, 103, 116, 104>>, <<57>>>>}

\* An empty body, one of a few bytes that look like a header, one of ten.
SomeBodies == {<<>>, <<13, 10, 13, 10, 97>>, [i \in 1 .. 10 |-> 98]}

\* None, "OK", "N C"
SomeMessages == {<<>>, <<79, 75>>, <<78, 32, 67>>}

\* "A:1", "A: 2", "B :", "B:  a:b"
SomeResponseFields == {<<<<65>>, <<>>, <<>>, <<49>>>>, <<<<65>>, <<>>, <<32>>, <<50>>>>,
                       <<<<66>>, <<32>>, <<>>, <<>>>>, <<<<66>>, <<>>, <<32, 32>>, <<97, 58, 98>>>>}

\* Nothing, a body that looks like the end of a header, and one that begins with a Nul.
SomeRests == {<<>>, <<13, 10, 120>>, <<0, 120>>}
===============================================================================
