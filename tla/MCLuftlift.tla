----------------------------- MODULE MCLuftlift -----------------------------
(* A Mac and a luftlift sender send one or two files of the same name over *)
(* two connections at a time; beside it one other device, two addresses of *)
(* awdl0 and one fault.                                                    *)
EXTENDS Luftlift

MCPayloads == {<<"a">>, <<"a", "a">>}
=============================================================================
