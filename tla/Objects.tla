------------------------------- MODULE Objects -------------------------------
(***************************************************************************)
(* Names of Kubernetes objects, as the operator forms them.                *)
(*                                                                         *)
(* A name is the sequence of its dash-separated parts: "foo-init" is       *)
(* <<"foo", "init">>.  Splitting at the dashes is one-to-one and no suffix *)
(* the operator appends holds a dash, so Sprintf("%s-%s") is Append.       *)
(* Everything lives in the one namespace the operator watches.             *)
(***************************************************************************)
EXTENDS Sequences

CONSTANT None           \* no object, no value, a Go nil

\* The identity of an object in the API server: its kind and its name.
Key(kind, name) == [kind |-> kind, name |-> name]

\* getManagementResourceName and its twins for groups and benchmarks.
ResourceName(name, resource) == Append(name, resource)

ServiceSuffix == "service"
DisruptionBudgetSuffix == "pdb"
InitSuffix == "init"
ConfigSuffix == "config"

==============================================================================
