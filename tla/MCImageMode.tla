---------------------------- MODULE MCImageMode -----------------------------
EXTENDS ImageMode

Byte(n) == {<<"byte", n>>}
MCFirstIV == <<"prefix", 0>>
(* Two images of two chunks and one of one: equal windows meet unequal      *)
(* streams, and the third image starts behind whatever the others left.    *)
MCImages == <<<<Byte(1), Byte(2)>>, <<Byte(3)>>, <<Byte(4), Byte(1)>>>>
=============================================================================
