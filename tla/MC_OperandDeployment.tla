------------------------- MODULE MC_OperandDeployment ------------------------
(***************************************************************************)
(* TLC instances of OperandDeployment: values for every layer, so that     *)
(* layers meet in the same flag, variable and field.                       *)
(***************************************************************************)
EXTENDS OperandDeployment

SomeText ==
  OwnText \cup {"t", "n", "p", "invalid", "word", "extra", "patch", "env", "x", "field", "user"}

JustWebhook == {"webhook"}
None == {}

Place(f, v) == [NoPlacement EXCEPT ![f] = v]
SomePlacements ==
  {NoPlacement, [Place("tolerations", {"t"}) EXCEPT !["nodeSelector"] = {"n"}],
   Place("resources", {"invalid"})}

SetField(f, v) == [NoPatch EXCEPT !.fields[f] = v]
SomePatches ==
  {NoPatch, SetField("nodeSelector", Null),
   [SetField("nodeSelector", {"p"}) EXCEPT !.fields["tolerations"] = {"p"}],
   [NoPatch EXCEPT !.args = <<<<"loglevel", "patch">>, <<"", "word">>, <<"extra", "patch">>>>],
   [NoPatch EXCEPT !.forbidden = TRUE]}

Flag(f, v, junk) == [dashes |-> TRUE, flag |-> f, value |-> v, junk |-> junk]
SomeEnvironments ==
  {<<>>, <<Flag("loglevel", "env", FALSE), Flag("tls-ciphers", "env", FALSE)>>,
   <<Flag("extra", "", TRUE), Flag("extra", "env", FALSE)>>,
   <<Flag("", "x", FALSE)>>}

SomeEnvVars ==
  {NoEnv, [NoEnv EXCEPT !["USER"] = "field"],
   [NoEnv EXCEPT !["HTTP_PROXY"] = "user", !["NO_PROXY"] = "user"]}

\* For the run about the key of trustedCABundle.
NoPatches == {NoPatch}
NoEnvironments == {<<>>}
NoEnvVars == {NoEnv}
NoPlacements == {NoPlacement}
=============================================================================
