----------------------------- MODULE MCFastCGI ------------------------------
(* Requests, parameters and answers of FastCGI for TLC.                    *)
EXTENDS FastCGI

CONSTANTS r1, r2

(* "a" stands for any proper prefix of "actionid", "m" for one of "module". *)
SomeShorter == {<<"a", "actionid">>, <<"m", "module">>}

(* No parameter; some named like fields of a CALL; some that hide its id.  *)
SomeParameters ==
    {<< >>,
     Raw("m", "x") \o Raw("module", "x") \o Raw("version", "2"),
     Raw("actionid", Stray),
     Raw("", "")}

(* Bodies of results: a response, a broken one, another array, a text, a   *)
(* map, and one that hides the id by a text or by a number; and of         *)
(* exceptions: a text, and a number where the text should be.              *)
SomeAnswers ==
    {Array("result", "response"), Array("result", "broken"), Array("result", "other"),
     Raw("result", "x"),
     Map("result", Raw("x", Stray)),
     Map("result", Raw("a", Stray)), Map("result", Num("actionid", 5)),
     Raw("string", "x"), Num("string", 5)}

=============================================================================
