--------------------------- MODULE MCThreadContext ---------------------------
(* Short words, tool results that are short, long, failed or a picture, and *)
(* a window that a few of them fill.                                        *)
EXTENDS ThreadContext

ShortWords == {[size |-> 1, media |-> 0]}
OneSize == {1}
ShortOrWordy == {1, 3}
LongOrPicture ==
  {[size |-> 3, media |-> 0, failed |-> FALSE], [size |-> 1, media |-> 1, failed |-> FALSE]}
Long == {[size |-> 3, media |-> 0, failed |-> FALSE]}
=============================================================================
