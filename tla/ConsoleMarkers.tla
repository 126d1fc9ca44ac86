--------------------------- MODULE ConsoleMarkers ---------------------------
(***************************************************************************)
(* What a gate can recognise in serial output: a byte string that occurs   *)
(* somewhere, or one that stands alone between line ends.                  *)
(***************************************************************************)

Text(x)  == <<"text", x>>
Alone(x) == <<"line", x>>

\* a whole line of output: it holds x and is x
Say(x) == {Text(x), Alone(x)}

Anywhere == Text("")
Root == Text("root$")
Home == Text("home$")
=============================================================================
