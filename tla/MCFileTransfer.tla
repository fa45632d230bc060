--------------------------- MODULE MCFileTransfer ---------------------------
(* Model-checking instance of FileTransfer: two clients, one with -f a     *)
(* and one typing four lines, and three files on the server: "ab" of 10   *)
(* bytes (a two-digit length), "a" of one byte and "a,b" (a comma in the  *)
(* name) empty.                                                           *)
EXTENDS FileTransfer

CONSTANTS c1, c2

MCFiles == [n \in {<<"a", "b">>, <<"a">>, <<"a", ",", "b">>} |->
               IF n = <<"a", "b">> THEN [i \in 1..10 |-> "x"]
               ELSE IF n = <<"a">> THEN <<"y">> ELSE <<>>]

MCFileArg == [c \in {c1, c2} |-> IF c = c1 THEN <<"a">> ELSE NoFile]

\* c2 types "a" (one character: skipped), "a,b " (trailing blank
\* stripped), "ab" and "cc" (no such file).
MCInput == [c \in {c1, c2} |->
               IF c = c1 THEN <<>>
               ELSE << <<"a", LF>>, <<"a", ",", "b", " ", LF>>,
                       <<"a", "b", LF>>, <<"c", "c", LF>> >>]
=============================================================================
