------------------------------- MODULE MCClients -------------------------------
(***************************************************************************)
(* What the package does towards other systems: the GitHub App client's    *)
(* tokens, the spans it samples and exports and the process they leave     *)
(* with, the operators' tools and wp-tf.  They share no state here, so a   *)
(* behaviour follows one of them.                                          *)
(***************************************************************************)
EXTENDS InstallationTokens, SpanSampling, OperatorTools, TerraformRuns, TLC

VARIABLE part

vars == <<part, githubVars, samplerVars, opsVars, terraformVars>>

Part(name) == part = name /\ part' = name

\* A read or a write tells apart what a call that looked its installation up, or
\* named it, goes through; the reads look it up here and the writes name it.
ReadsLookUp == \A c \in Callers : caller'[c].at # "idle" => caller'[c].writes = ~caller'[c].looked

Init ==
  /\ part \in {"github", "spans", "process", "operators", "terraform"}
  /\ GithubInit /\ SamplerInit /\ OpsInit /\ TerraformInit
  \* The parts that do not move have one initial state each; the repository is
  \* covered by the installation some callers name.
  /\ home = 1
  /\ part # "process" => ~life.wrapped
  /\ part # "spans" => chance = [sampled |-> {}, onOverflow |-> "drop"]
  /\ part # "operators" => target = "admin"
  /\ part # "terraform" => ~variable.there

Next ==
  \/ Part("github") /\ GithubNext /\ ReadsLookUp /\ UNCHANGED <<samplerVars, opsVars, terraformVars>>
  \/ Part("spans") /\ SamplerNext /\ UNCHANGED <<githubVars, opsVars, terraformVars>>
  \/ Part("process") /\ ProcessNext /\ UNCHANGED <<githubVars, opsVars, terraformVars>>
  \/ Part("operators") /\ OpsNext /\ UNCHANGED <<githubVars, samplerVars, terraformVars>>
  \/ Part("terraform") /\ TerraformNext /\ UNCHANGED <<githubVars, samplerVars, opsVars>>

Spec == Init /\ [][Next]_vars

Sym == Permutations(Callers) \cup Permutations(Traces)

\* What the operators' commands and wp-tf owe the people who run them, together.
ToolsDoWhatTheyShow == OperatorsDoNotCross /\ RunsAreFollowed

-------------------------------------------------------------------------------
\* Sets of one key and of two, and an unset.
SetOrUnset == {("k1" :> 1), ("k1" :> 2), ("k1" :> 1 @@ "k2" :> 1), ("k2" :> 0)}
===============================================================================
