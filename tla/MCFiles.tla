------------------------------- MODULE MCFiles -------------------------------
(***************************************************************************)
(* The three stores of files that the program, its installer and the       *)
(* server's command work on.  They share no file: a behaviour works on the *)
(* store it begins with, and the states of the run are those of the three. *)
(***************************************************************************)
EXTENDS ConfigFiles, Programs, AwgClients

VARIABLE store

MCVersions == {<<1>>, <<1, 0>>, <<1, 0, 1>>, <<1, 1>>}
\* Two versions come with another build of sing-box than the other two.
MCPinAt(v) == Part(v, 2)

allVars == <<store, configVars, programVars, clientVars>>

\* One state for a store that is not worked on
Some(S) == CHOOSE x \in S : TRUE
AtRest ==
  /\ store # "config" =>
       json.data = [host |-> Some(Servers), opt |-> Some(Options), awg |-> No]
  /\ store # "programs" => frozen /\ program = <<1>>
  /\ store # "clients" => legacy = Void

Init ==
  /\ store \in {"config", "programs", "clients"}
  /\ ConfigInit /\ ProgramsInit /\ ClientsInit
  /\ AtRest

Next ==
  /\ UNCHANGED store
  /\ \/ store = "config" /\ ConfigNext /\ UNCHANGED <<programVars, clientVars>>
     \/ store = "programs" /\ ProgramsNext /\ UNCHANGED <<configVars, clientVars>>
     \/ store = "clients" /\ ClientsNext /\ UNCHANGED <<configVars, programVars>>

Spec == Init /\ [][Next]_allVars
==============================================================================
