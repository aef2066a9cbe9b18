----------------------------- MODULE MCChatScan -----------------------------
(* Instances of ChatScan for TLC. *)
EXTENDS ChatScan, TLC

\* A number at the start or after another part, the spelled form alone or with a
\* number, a keyword alone or with a number, and neither.
SomeTexts == {<<"phone">>, <<"plain", "phone">>, <<"spelled", "phone">>, <<"spelled">>,
              <<"keyword">>, <<"plain">>}

ClientSymmetry == Permutations(Clients)

=============================================================================
