------------------------------- MODULE MCKissLink -------------------------------
(* KissLink for TLC: the four special bytes and one plain one, which is also  *)
(* the command; payloads with nothing, each special byte and two of them.     *)
EXTENDS KissLink

CONSTANTS fend, fesc, tfend, tfesc, x

MCPlain == {x}
MCPayloads == {<<>>, <<fend>>, <<fesc, tfend>>, <<tfesc, x>>}
=============================================================================
