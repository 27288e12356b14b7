---------------------------- MODULE Setup_proofs -----------------------------
(***************************************************************************)
(* What comes before a measurement.  The job Setup plans the jobs of the   *)
(* agents and builds what they measure, for any hosts that may be asked    *)
(* for, any history and any number of arguments; and on an agent the host  *)
(* commands leave installed what a job starts, for any hosts, settings and *)
(* commands, each of which may fail or be killed.                          *)
(***************************************************************************)
EXTENDS HostInstall, SetupPipeline, FiniteSetTheorems, WellFoundedInduction, TLAPS

-----------------------------------------------------------------------------
(* The hosts of an agent. *)

Installing == pc \in {"index", "check", "fetch", "unpack", "asks", "fill"}
Saving == pc \in {"save", "write"}
AtHand == pc \in {"fetch", "unpack", "asks", "fill"} \/ Saving

(* Which command can be where, and that the host at hand is one it has still to *)
(* see to.                                                                      *)
PhaseInv ==
    /\ Installing => cmd.op = "install"
    /\ pc = "configure" => cmd.op = "configure"
    /\ Saving => cmd.op \in {"install", "configure"}
    /\ pc = "rm" => cmd.op \in {"install", "uninstall"}
    /\ pc # "rm" => removing = {}
    /\ AtHand => cur \in todo
    /\ pc = "rm" /\ cmd.op = "install" => cur \in todo /\ removing \subseteq {cur}
    /\ todo \subseteq cmd.hosts
    /\ cmd.supported => removing \subseteq cmd.hosts
    /\ ~cmd.supported => /\ cmd.op = "uninstall" /\ cmd.hosts = {}
                         /\ \A h \in removing : "disabled" \notin flags[h]
    /\ pc # "idle" => outcome = "none"

(* A host.json vouches for the files beside it, even while it is cut off. *)
CompleteInv ==
    /\ \A h \in Hosts : json[h] # "none" /\ h \notin damaged \cup removing => dir[h] = "whole"
    /\ cmd.op = "configure" => \A h \in todo : json[h] # "none"
    /\ pc = "rm" /\ cmd.op = "install" /\ cur \notin removing => json[cur] = "none"
    /\ pc \in {"fetch", "unpack", "asks", "fill"} => json[cur] = "none"
    /\ Saving /\ cmd.op = "install" => dir[cur] = "whole"

(* A host that a command is through with is in order. *)
DoneInv ==
    /\ DoneOrReported
    /\ cmd.op = "install" /\ pc \notin {"index", "idle"} =>
        \A h \in cmd.hosts \ (todo \cup reported \cup Refused) : Installed(h)
    /\ cmd.op = "uninstall" /\ pc = "rm" =>
        cmd.hosts \cap Listed \subseteq reported \cup removing

Inv == TypeOK /\ PhaseInv /\ CompleteInv /\ DoneInv

-----------------------------------------------------------------------------
LEMMA CommandFields ==
  ASSUME NEW c \in Commands
  PROVE  /\ c.hosts \subseteq Hosts /\ c.op \in {"install", "uninstall", "configure"}
         /\ c.force \in BOOLEAN /\ c.supported \in BOOLEAN
         /\ c.pair \in (Keys \cup {"other"}) \X BOOLEAN
<1>1. c.pair \in Pairs \cup {<<"other", TRUE>>}
  BY DEF Commands
<1>2. <<"other", TRUE>> \in (Keys \cup {"other"}) \X BOOLEAN
  OBVIOUS
<1>3. c.pair \in (Keys \cup {"other"}) \X BOOLEAN
  BY <1>1, <1>2, HostAssumption
<1>4. QED
  BY <1>3 DEF Commands

LEMMA CommandType ==
  ASSUME TypeOK
  PROVE  /\ cmd.hosts \subseteq Hosts /\ cmd.op \in {"install", "uninstall", "configure"}
         /\ cmd.force \in BOOLEAN /\ cmd.supported \in BOOLEAN
         /\ cmd.pair \in (Keys \cup {"other"}) \X BOOLEAN
  BY CommandFields DEF TypeOK

LEMMA PairKept ==
  ASSUME NEW f \in SUBSET Keys, NEW p \in (Keys \cup {"other"}) \X BOOLEAN
  PROVE  /\ WithPair(f, p) \in SUBSET Keys
         /\ \A k \in Keys \ {p[1]} : k \in WithPair(f, p) <=> k \in f
  BY DEF WithPair

LEMMA InitInv == Init => Inv
<1> SUFFICES ASSUME Init PROVE Inv
  OBVIOUS
<1>1. TypeOK
  BY HostAssumption DEF Init, TypeOK, Commands, Uninstall, Keys
<1>2. PhaseInv
  BY DEF Init, PhaseInv, Installing, Saving, AtHand, Uninstall
<1>3. CompleteInv
  BY DEF Init, CompleteInv, Saving, Uninstall
<1>4. DoneInv
  BY DEF Init, DoneInv, DoneOrReported, Uninstall
<1>5. QED
  BY <1>1, <1>2, <1>3, <1>4 DEF Inv

(* A command begins with the disk as it is. *)
LEMMA BeginStep ==
  ASSUME Inv, NEW c \in Commands, NEW at, NEW hs, NEW rm, Begin(c, at, hs, rm),
         at \in {"index", "configure", "rm"},
         hs \subseteq c.hosts, rm \subseteq Hosts,
         at = "index" => c.op = "install",
         at = "configure" => c.op = "configure" /\ hs \subseteq Listed,
         at = "rm" => c.op = "uninstall" /\ hs = {} /\ c.hosts \cap Listed \subseteq rm,
         at # "rm" => rm = {},
         c.supported => rm \subseteq c.hosts,
         ~c.supported => /\ c.op = "uninstall" /\ c.hosts = {}
                         /\ \A h \in rm : "disabled" \notin flags[h]
  PROVE  Inv'
<1> USE DEF Begin, diskVars
<1>1. TypeOK'
  BY CommandFields, HostAssumption DEF Inv, TypeOK
<1>2. PhaseInv'
  BY DEF Inv, PhaseInv, Installing, Saving, AtHand
<1>3. CompleteInv'
  BY DEF Inv, PhaseInv, CompleteInv, Saving, Listed, TypeOK
<1>4. DoneInv'
  BY DEF Inv, DoneInv, DoneOrReported, Listed
<1>5. QED
  BY <1>1, <1>2, <1>3, <1>4 DEF Inv

LEMMA StartSteps ==
  ASSUME Inv, StartInstall \/ StartConfigure \/ StartUninstall PROVE Inv'
<1>1. CASE StartInstall
  <2>1. PICK hs \in SUBSET Hosts \ {{}}, force \in BOOLEAN, p \in Pairs :
            Begin(Install(hs, force, p), "index", hs, {})
    BY <1>1 DEF StartInstall
  <2>2. Install(hs, force, p) \in Commands
    BY DEF Commands, Install
  <2>3. QED
    BY <2>1, <2>2, BeginStep DEF Install
<1>2. CASE StartConfigure
  <2>1. PICK hs \in SUBSET Hosts \ {{}}, p \in Pairs :
            Begin(Configure(hs, p), "configure", FindHosts(hs, TRUE), {})
    BY <1>2 DEF StartConfigure
  <2>2. Configure(hs, p) \in Commands
    BY DEF Commands, Configure
  <2>3. FindHosts(hs, TRUE) = hs \cap Listed
    BY DEF FindHosts
  <2>4. QED
    BY <2>1, <2>2, <2>3, BeginStep DEF Configure
<1>3. CASE StartUninstall
  <2>1. PICK hs \in SUBSET Hosts, s \in BOOLEAN :
            /\ ~s => hs = {}
            /\ Begin(Uninstall(hs, s), "rm", {}, FindHosts(hs, s))
    BY <1>3 DEF StartUninstall
  <2>2. Uninstall(hs, s) \in Commands
    BY DEF Commands, Uninstall
  <2>3. /\ FindHosts(hs, s) \subseteq Hosts /\ hs \cap Listed \subseteq FindHosts(hs, s)
        /\ s => FindHosts(hs, s) \subseteq hs
        /\ ~s => \A h \in FindHosts(hs, s) : "disabled" \notin flags[h]
    BY <2>1 DEF FindHosts, DefaultHosts, Listed
  <2>4. QED
    BY <2>1, <2>2, <2>3, BeginStep DEF Uninstall
<1>4. QED
  BY <1>1, <1>2, <1>3

(* Steps that only move the command along. *)
LEMMA ReadIndexStep == ASSUME Inv, ReadIndex PROVE Inv'
<1> USE DEF ReadIndex, diskVars
<1>1. TypeOK'
  BY CommandType DEF Inv, TypeOK, Commands
<1>2. PhaseInv'
  BY CommandType DEF Inv, TypeOK, PhaseInv, Installing, Saving, AtHand
<1>3. CompleteInv'
  BY DEF Inv, PhaseInv, CompleteInv, Installing, Saving
<1>4. DoneInv'
  BY DEF Inv, PhaseInv, DoneInv, DoneOrReported, Refused, Installed, Installing
<1>5. QED
  BY <1>1, <1>2, <1>3, <1>4 DEF Inv

LEMMA CheckStep == ASSUME Inv, NEW h \in Hosts, Check(h) PROVE Inv'
<1> USE DEF Check, diskVars
<1>0. h \in todo /\ h \in cmd.hosts /\ cmd.op = "install" /\ cmd.force \in BOOLEAN
  BY CommandType DEF Inv, PhaseInv, Installing, Turn
<1>1. TypeOK'
  BY DEF Inv, TypeOK, Commands
<1>2. PhaseInv'
  BY <1>0 DEF Inv, PhaseInv, Installing, Saving, AtHand
<1>3. CompleteInv'
  BY <1>0 DEF Inv, PhaseInv, CompleteInv, Installing, Saving, Exists
<1>4. Exists(h) /\ ~cmd.force => Installed(h)
  BY DEF Inv, TypeOK, PhaseInv, CompleteInv, Exists, Installed, Usable, Listed
<1>5. DoneInv'
  BY <1>0, <1>4 DEF Inv, DoneInv, DoneOrReported, Installed, Usable, Listed, Refused, PhaseInv
<1>6. QED
  BY <1>1, <1>2, <1>3, <1>5 DEF Inv

LEMMA DownloadStep == ASSUME Inv, Download PROVE Inv'
<1> USE DEF Download, diskVars
<1>1. TypeOK'
  BY DEF Inv, TypeOK, Commands
<1>2. PhaseInv'
  BY DEF Inv, PhaseInv, Installing, Saving, AtHand
<1>3. CompleteInv'
  BY DEF Inv, PhaseInv, CompleteInv, Installing, Saving
<1>4. DoneInv'
  BY DEF Inv, PhaseInv, DoneInv, DoneOrReported, Installed, Usable, Listed, Refused, Installing
<1>5. QED
  BY <1>1, <1>2, <1>3, <1>4 DEF Inv

(* The files of a host may be gone while it has no host.json. *)
LEMMA UnpackStep == ASSUME Inv, Unpack \/ Unpacked PROVE Inv'
<1> USE DEF Unpack, Unpacked
<1>0. /\ cur \in Hosts /\ cur \in todo /\ json[cur] = "none" /\ cmd.op = "install"
      /\ outcome = "none" /\ removing = {}
  BY DEF Inv, TypeOK, PhaseInv, CompleteInv, AtHand, Installing
<1>1. TypeOK'
  BY DEF Inv, TypeOK, Commands
<1>2. PhaseInv'
  BY <1>0 DEF Inv, PhaseInv, Installing, Saving, AtHand
<1>3. CompleteInv'
  BY <1>0 DEF Inv, TypeOK, CompleteInv, Saving
<1>4. \A h \in Hosts \ {cur} : Installed(h) => Installed(h)'
  BY DEF Installed, Usable, Listed, Inv, TypeOK, Dropped
<1>5. DoneInv'
  BY <1>0, <1>4, CommandType DEF Inv, DoneInv, DoneOrReported, Refused
<1>6. QED
  BY <1>1, <1>2, <1>3, <1>5 DEF Inv

(* host.json is cut off first, and vouches for the files from then on. *)
LEMMA SaveOpensStep == ASSUME Inv, SaveOpens PROVE Inv'
<1> USE DEF SaveOpens
<1>0. /\ cur \in Hosts /\ cur \in todo /\ cmd.op \in {"install", "configure"}
      /\ outcome = "none" /\ removing = {}
  BY DEF Inv, TypeOK, PhaseInv, AtHand, Saving
<1>1. TypeOK'
  BY <1>0 DEF Inv, TypeOK
<1>2. PhaseInv'
  BY <1>0 DEF Inv, PhaseInv, Installing, Saving, AtHand
<1>3. CompleteInv'
  BY <1>0 DEF Inv, TypeOK, CompleteInv, Saving
<1>4. \A h \in Hosts \ {cur} : Installed(h) => Installed(h)'
  BY DEF Installed, Usable, Listed, Inv, TypeOK, Dropped
<1>5. DoneInv'
  BY <1>0, <1>4, CommandType DEF Inv, DoneInv, DoneOrReported, Refused
<1>6. QED
  BY <1>1, <1>2, <1>3, <1>5 DEF Inv

LEMMA SavedStep == ASSUME Inv, Saved PROVE Inv'
<1> USE DEF Saved
<1>0. /\ cur \in Hosts /\ cur \in todo /\ cmd.op \in {"install", "configure"}
      /\ outcome = "none" /\ removing = {}
  BY DEF Inv, TypeOK, PhaseInv, AtHand, Saving
<1>1. TypeOK'
  <2>1. flags[cur] \in SUBSET Keys /\ {} \in SUBSET Keys
    BY <1>0 DEF Inv, TypeOK
  <2>2. WithPair(IF cmd.op = "install" THEN {} ELSE flags[cur], cmd.pair) \in SUBSET Keys
    BY <2>1, PairKept, CommandType DEF Inv
  <2>3. flags' \in [Hosts -> SUBSET Keys]
    BY <2>2 DEF Inv, TypeOK
  <2>4. QED
    BY <1>0, <2>3 DEF Inv, TypeOK
<1>2. PhaseInv'
  BY <1>0 DEF Inv, PhaseInv, Installing, Saving, AtHand
<1>3. CompleteInv'
  BY <1>0 DEF Inv, TypeOK, CompleteInv, Saving
<1>4. \A h \in Hosts \ {cur} : Installed(h) => Installed(h)'
  BY DEF Installed, Usable, Listed, Inv, TypeOK, Dropped
<1>5. cmd.op = "install" => Installed(cur)'
  BY <1>0 DEF Installed, Usable, Listed, Inv, TypeOK, CompleteInv, Saving
<1>6. DoneInv'
  BY <1>0, <1>4, <1>5, CommandType DEF Inv, DoneInv, DoneOrReported, Refused, Saving
<1>7. QED
  BY <1>1, <1>2, <1>3, <1>6 DEF Inv

LEMMA ConfigureStep == ASSUME Inv, NEW h \in Hosts, ConfigureHost(h) PROVE Inv'
<1> USE DEF ConfigureHost, diskVars
<1>1. TypeOK'
  BY DEF Inv, TypeOK
<1>2. PhaseInv'
  BY DEF Inv, PhaseInv, Installing, Saving, AtHand
<1>3. CompleteInv'
  BY DEF Inv, PhaseInv, CompleteInv, Installing, Saving
<1>4. DoneInv'
  BY DEF Inv, PhaseInv, DoneInv, DoneOrReported, Installed, Usable, Listed, Refused
<1>5. QED
  BY <1>1, <1>2, <1>3, <1>4 DEF Inv

(* A removal takes away what vouches and what is vouched for, in any order. *)
LEMMA RemoveStep ==
  ASSUME Inv, NEW h \in Hosts, RemoveContents(h) \/ RemoveJson(h) \/ Removed(h)
  PROVE  Inv'
<1> USE DEF RemoveContents, RemoveJson, Removed, progVars
<1>0. /\ h \in removing /\ pc = "rm" /\ outcome = "none" /\ cmd.op \in {"install", "uninstall"}
      /\ cmd.op = "install" => cur = h /\ h \in todo
  BY DEF Inv, PhaseInv
<1>1. TypeOK'
  BY DEF Inv, TypeOK
<1>2. PhaseInv'
  <2>1. removing' \subseteq removing /\ removing \subseteq Hosts
    BY DEF Inv, TypeOK
  <2>2. ASSUME NEW g \in Hosts, "disabled" \notin flags[g] PROVE "disabled" \notin flags'[g]
    BY <2>2 DEF Inv, TypeOK
  <2>3. QED
    BY <1>0, <2>1, <2>2 DEF Inv, PhaseInv, Installing, Saving, AtHand
<1>3. CompleteInv'
  BY <1>0 DEF Inv, TypeOK, CompleteInv, Saving
<1>4. \A g \in Hosts \ {h} : Installed(g) => Installed(g)'
  BY DEF Installed, Usable, Listed, Inv, TypeOK, Dropped
<1>5. DoneInv'
  BY <1>0, <1>4, CommandType DEF Inv, TypeOK, DoneInv, DoneOrReported, Refused, Listed
<1>6. QED
  BY <1>1, <1>2, <1>3, <1>5 DEF Inv

LEMMA AllRemovedStep == ASSUME Inv, AllRemoved PROVE Inv'
<1> USE DEF AllRemoved, diskVars, Finish
<1>0. /\ pc = "rm" /\ outcome = "none" /\ cmd.op \in {"install", "uninstall"}
      /\ cmd.op = "install" => cur \in todo /\ json[cur] = "none"
  BY DEF Inv, PhaseInv, CompleteInv
<1>1. TypeOK'
  BY DEF Inv, TypeOK
<1>2. PhaseInv'
  BY <1>0 DEF Inv, PhaseInv, Installing, Saving, AtHand
<1>3. CompleteInv'
  BY <1>0 DEF Inv, TypeOK, CompleteInv, Saving
<1>4. DoneInv'
  BY <1>0, CommandType DEF Inv, DoneInv, DoneOrReported, Refused, Listed, Installed, Usable
<1>5. QED
  BY <1>1, <1>2, <1>3, <1>4 DEF Inv

(* The ends of a command. *)
LEMMA EndSteps == ASSUME Inv, InstallEnds \/ ConfigureEnds PROVE Inv'
<1> USE DEF InstallEnds, ConfigureEnds, diskVars, Finish
<1>1. TypeOK'
  BY CommandType DEF Inv, TypeOK
<1>2. PhaseInv'
  BY DEF Inv, PhaseInv, Installing, Saving, AtHand
<1>3. CompleteInv'
  BY DEF Inv, PhaseInv, CompleteInv, Saving
<1>4. DoneInv'
  BY DEF Inv, PhaseInv, DoneInv, DoneOrReported, Refused, Listed, Installed, Usable
<1>5. QED
  BY <1>1, <1>2, <1>3, <1>4 DEF Inv

LEMMA StopSteps ==
  ASSUME Inv, Fails \/ Killed \/ (\E h \in Hosts : RemoveFails(h))
  PROVE  Inv'
<1> USE DEF diskVars, Finish, Throw, Spoiled
<1>1. CASE Fails \/ Killed
  <2> USE DEF Fails, Killed
  <2>1. TypeOK'
    BY <1>1 DEF Inv, TypeOK
  <2>2. PhaseInv'
    BY <1>1 DEF Inv, PhaseInv, Installing, Saving, AtHand
  <2>3. CompleteInv'
    BY <1>1 DEF Inv, PhaseInv, CompleteInv, Saving
  <2>4. DoneInv'
    BY <1>1 DEF DoneInv, DoneOrReported
  <2>5. QED
    BY <2>1, <2>2, <2>3, <2>4 DEF Inv
<1>2. ASSUME NEW h \in Hosts, RemoveFails(h) PROVE Inv'
  <2>0. /\ h \in removing /\ pc = "rm" /\ outcome = "none"
        /\ cmd.op \in {"install", "uninstall"}
        /\ cmd.op = "install" => cur = h /\ removing = {h}
    BY <1>2 DEF Inv, PhaseInv, RemoveFails
  <2>1. TypeOK'
    BY <1>2 DEF Inv, TypeOK, RemoveFails
  <2>2. PhaseInv'
    BY <1>2, <2>0 DEF Inv, PhaseInv, Installing, Saving, AtHand, RemoveFails
  <2>3. CompleteInv'
    BY <1>2, <2>0 DEF Inv, TypeOK, PhaseInv, CompleteInv, Saving, RemoveFails
  <2>4. DoneInv'
    BY <1>2, <2>0, CommandType DEF Inv, DoneInv, DoneOrReported, RemoveFails, Listed
  <2>5. QED
    BY <2>1, <2>2, <2>3, <2>4 DEF Inv
<1>3. QED
  BY <1>1, <1>2

LEMMA Stuttering == ASSUME Inv, UNCHANGED vars PROVE Inv'
<1> USE DEF vars, diskVars, progVars
<1>1. TypeOK'
  BY DEF Inv, TypeOK
<1>2. PhaseInv'
  BY DEF Inv, PhaseInv, Installing, Saving, AtHand
<1>3. CompleteInv'
  BY DEF Inv, CompleteInv, Saving
<1>4. DoneInv'
  BY DEF Inv, DoneInv, DoneOrReported, Refused, Listed, Installed, Usable
<1>5. QED
  BY <1>1, <1>2, <1>3, <1>4 DEF Inv

LEMMA NextInv == Inv /\ [Next]_vars => Inv'
<1> SUFFICES ASSUME Inv, [Next]_vars PROVE Inv'
  OBVIOUS
<1>1. CASE StartInstall \/ StartConfigure \/ StartUninstall
  BY <1>1, StartSteps
<1>2. CASE Step
  BY <1>2, ReadIndexStep, DownloadStep, UnpackStep, EndSteps, SaveOpensStep, SavedStep,
     AllRemovedStep, CheckStep, ConfigureStep, RemoveStep DEF Step
<1>3. CASE Fails \/ Killed \/ \E h \in Hosts : RemoveFails(h)
  BY <1>3, StopSteps
<1>4. CASE Over \/ UNCHANGED vars
  BY <1>4, Stuttering DEF Over
<1>5. QED
  BY <1>1, <1>2, <1>3, <1>4 DEF Next

LEMMA Invariance == Spec => []Inv
BY InitInv, NextInv, PTL DEF Spec

-----------------------------------------------------------------------------
(* The state of the disk and of the commands keeps its type. *)
THEOREM TypeCorrect == Spec => []TypeOK
<1>1. Inv => TypeOK
  BY DEF Inv
<1>2. QED
  BY <1>1, Invariance, PTL

(* What is listed has all its files, but for removals that were interrupted. *)
THEOREM ListedComplete == Spec => []ListedIsComplete
<1>1. Inv => ListedIsComplete
  BY DEF Inv, CompleteInv, ListedIsComplete, Listed
<1>2. QED
  BY <1>1, Invariance, PTL

(* An install or uninstall that ends well has done what it was asked for, or has *)
(* reported what it has not.                                                     *)
THEOREM Done == Spec => []DoneOrReported
<1>1. Inv => DoneOrReported
  BY DEF Inv, DoneInv
<1>2. QED
  BY <1>1, Invariance, PTL

(* No command touches a host that it was not asked for, or a setting it was not asked *)
(* to change; with one exception: an uninstall of nothing but unknown names removes   *)
(* the default hosts, but none that is disabled.                                      *)
THEOREM OthersAreUntouched == Spec => OthersUntouched
<1> DEFINE Untouched(h) ==
        /\ h \notin cmd.hosts /\ (cmd.supported \/ "disabled" \in flags[h]) =>
             UNCHANGED <<dir[h], json[h], flags[h]>>
        /\ cmd.op = "configure" => \A k \in Keys \ {cmd.pair[1]} : k \in flags'[h] <=> k \in flags[h]
<1>1. Inv /\ [Next]_vars => [\A h \in Hosts : Untouched(h)]_vars
  <2> SUFFICES ASSUME Inv, Next, NEW h \in Hosts PROVE Untouched(h)
    OBVIOUS
  <2>1. CASE UNCHANGED <<dir, json, flags>>
    BY <2>1
  <2>2. CASE Unpack \/ Unpacked \/ SaveOpens
    <3>1. cur \in cmd.hosts /\ UNCHANGED flags /\ cur \in Hosts
      BY <2>2 DEF Inv, TypeOK, PhaseInv, AtHand, Saving, Unpack, Unpacked, SaveOpens
    <3>2. h # cur => UNCHANGED <<dir[h], json[h]>>
      BY <2>2 DEF Inv, TypeOK, Unpack, Unpacked, SaveOpens
    <3>3. QED
      BY <3>1, <3>2
  <2>3. CASE Saved
    <3>1. cur \in cmd.hosts /\ cur \in Hosts /\ dir' = dir
      BY <2>3 DEF Inv, TypeOK, PhaseInv, AtHand, Saving, Saved
    <3>2. h # cur => UNCHANGED <<json[h], flags[h]>>
      BY <2>3 DEF Inv, TypeOK, Saved
    <3>3. cmd.op = "configure" => flags'[cur] = WithPair(flags[cur], cmd.pair)
      BY <2>3, <3>1 DEF Inv, TypeOK, Saved
    <3>4. \A k \in Keys \ {cmd.pair[1]} : k \in WithPair(flags[cur], cmd.pair) <=> k \in flags[cur]
      BY <3>1, PairKept, CommandType DEF Inv, TypeOK
    <3>5. QED
      BY <3>1, <3>2, <3>3, <3>4
  <2>4. CASE \E g \in Hosts : RemoveContents(g) \/ RemoveJson(g) \/ Removed(g)
    <3>1. PICK g \in Hosts : RemoveContents(g) \/ RemoveJson(g) \/ Removed(g)
      BY <2>4
    <3>2. /\ g \in removing /\ cmd.op # "configure"
          /\ cmd.supported => g \in cmd.hosts
          /\ ~cmd.supported => "disabled" \notin flags[g]
      BY <3>1 DEF Inv, PhaseInv, RemoveContents, RemoveJson, Removed
    <3>3. h # g => UNCHANGED <<dir[h], json[h], flags[h]>>
      BY <3>1 DEF Inv, TypeOK, RemoveContents, RemoveJson, Removed
    <3>4. QED
      BY <3>2, <3>3
  <2>5. QED
    BY <2>1, <2>2, <2>3, <2>4 DEF Next, Step, StartInstall, StartConfigure, StartUninstall, Begin,
       diskVars, ReadIndex, Check, Download, InstallEnds, ConfigureHost, ConfigureEnds,
       AllRemoved, RemoveFails, Fails, Killed, Over, vars
<1>2. QED
  BY <1>1, Invariance, PTL DEF Spec, OthersUntouched

-----------------------------------------------------------------------------
(* Setup: the compilers. *)

(* What may be asked for, and what a part of the input leaves of it. *)
Revisions == {HEAD, ParentOfHEAD, NoCommit} \cup {Hash(c) : c \in Commits}
ParametersType ==
  [preset : PresetNames, predictable : BOOLEAN, hosts : Seq(KnownHosts), isComparison : BOOLEAN,
   isCustomCommitRange : BOOLEAN, baselineCommit : Revisions, newCommit : Revisions]

InputInv ==
  /\ ref \in {"pull", "main", "other"} /\ baselining \in BOOLEAN /\ implementation \in {"strada", "corsa"}
  /\ parameters \in ParametersType
  /\ ~parameters.isCustomCommitRange =>
       /\ parameters.isComparison = isPr
       /\ parameters.baselineCommit = (IF isPr THEN ParentOfHEAD ELSE HEAD)
       /\ parameters.newCommit = (IF isPr THEN HEAD ELSE NoCommit)
  /\ parameters.isCustomCommitRange =>
       \E b \in Commits : parameters.baselineCommit = Hash(b)
  /\ parameters.isCustomCommitRange /\ parameters.isComparison =>
       \E c \in Commits : parameters.newCommit = Hash(c)

(* Whatever HEAD is while the compilers are built, it is what the next step needs. *)
NewAsked == IF parameters.isComparison THEN RevParse(parameters.newCommit, NumCommits) ELSE 0
HeadAfterNew == IF parameters.isComparison THEN NewAsked ELSE NumCommits
BaselineAsked == RevParse(parameters.baselineCommit, NumCommits)
BuildInv ==
  /\ step \in {"parse", "failed", "succeeded"} \cup ToSet(BuildSteps)
  /\ step \in {"parse", "switchToNew"} => head = NumCommits
  /\ step \in {"parse", "switchToNew", "buildNew"} => built = [new |-> 0, baseline |-> 0]
  /\ step \in {"buildNew", "switchToBaseline"} => head = HeadAfterNew
  /\ step \in {"switchToBaseline", "buildBaseline"} => built = [new |-> NewAsked, baseline |-> 0]
  /\ step = "buildBaseline" => head = BaselineAsked
  /\ step \in {"publish", "succeeded"} => built = [new |-> NewAsked, baseline |-> BaselineAsked]

SetupInv == InputInv /\ BuildInv

(* The order of the steps in benchmark.yml. *)
LEMMA StepsInOrder ==
  /\ ToSet(BuildSteps) = {"switchToNew", "buildNew", "switchToBaseline", "buildBaseline", "publish"}
  /\ After("switchToNew") = "buildNew" /\ After("buildNew") = "switchToBaseline"
  /\ After("switchToBaseline") = "buildBaseline" /\ After("buildBaseline") = "publish"
  /\ After("publish") = "succeeded"
<1>1. DOMAIN BuildSteps = 1 .. 5 /\ Len(BuildSteps) = 5
  BY DEF BuildSteps
<1>2. /\ BuildSteps[1] = "switchToNew" /\ BuildSteps[2] = "buildNew" /\ BuildSteps[3] = "switchToBaseline"
      /\ BuildSteps[4] = "buildBaseline" /\ BuildSteps[5] = "publish"
  BY DEF BuildSteps
<1>3. 1 .. 5 = {1, 2, 3, 4, 5}
  OBVIOUS
<1>4. ToSet(BuildSteps) = {"switchToNew", "buildNew", "switchToBaseline", "buildBaseline", "publish"}
  BY <1>1, <1>2, <1>3 DEF ToSet
<1>5. ASSUME NEW i \in 1 .. 5
      PROVE  After(BuildSteps[i]) = IF i = 5 THEN "succeeded" ELSE BuildSteps[i + 1]
  <2>1. \A j \in 1 .. 5 : BuildSteps[j] = BuildSteps[i] => j = i
    BY <1>2, <1>3
  <2>2. (CHOOSE j \in DOMAIN BuildSteps : BuildSteps[j] = BuildSteps[i]) = i
    BY <1>1, <2>1
  <2>3. QED  BY <1>1, <2>2 DEF After
<1>6. QED  BY <1>2, <1>4, <1>5

(* Without arguments a pull request is compared with its base, and HEAD is measured else. *)
LEMMA InputInit == SetupInit => InputInv
<1> SUFFICES ASSUME SetupInit PROVE InputInv
  OBVIOUS
<1>1. /\ ref \in {"pull", "main", "other"} /\ baselining \in BOOLEAN /\ implementation \in {"strada", "corsa"}
      /\ isPr \in BOOLEAN
  BY DEF SetupInit, isPr
<1>2. parameters = [preset |-> IF isPr THEN "regular" ELSE "baseline",
                     predictable |-> FALSE, hosts |-> <<>>,
                     isComparison |-> isPr, isCustomCommitRange |-> FALSE,
                     baselineCommit |-> IF isPr THEN ParentOfHEAD ELSE HEAD,
                     newCommit |-> IF isPr THEN HEAD ELSE NoCommit]
  BY DEF SetupInit
<1>3. <<>> \in Seq(KnownHosts)
  OBVIOUS
<1>4. parameters \in ParametersType
  BY <1>1, <1>2, <1>3 DEF ParametersType, PresetNames, Revisions
<1>5. QED  BY <1>1, <1>2, <1>4 DEF InputInv

(* The arguments that give the commits. *)
LEMMA CommitsAskedFields ==
  ASSUME NEW p \in ParametersType, NEW baseline \in Commits, NEW new \in {NoCommit} \cup {Hash(c) : c \in Commits}
  PROVE  LET q == CommitsAsked(p, Hash(baseline), new)
         IN  /\ q \in ParametersType /\ q.isCustomCommitRange
             /\ q.baselineCommit = Hash(baseline) /\ q.newCommit = new
             /\ q.isComparison => new # NoCommit
BY DEF CommitsAsked, ParametersType, Revisions

(* The hosts add up, and a range of commits replaces both commits at once. *)
LEMMA InputRead == InputInv /\ ReadPart => InputInv'
<1> SUFFICES ASSUME InputInv, ReadPart PROVE InputInv'
  OBVIOUS
<1>0. /\ UNCHANGED <<ref, baselining, implementation>> /\ isPr' = isPr /\ parameters \in ParametersType
  BY DEF ReadPart, InputInv, isPr
<1>1. CASE \E p \in PresetNames : parameters' = [parameters EXCEPT !.preset = p]
  BY <1>0, <1>1 DEF InputInv, ParametersType
<1>2. CASE \E b \in BOOLEAN : parameters' = [parameters EXCEPT !.predictable = b]
  BY <1>0, <1>2 DEF InputInv, ParametersType
<1>3. CASE \E l \in HostLists : parameters' = [parameters EXCEPT !.hosts = @ \o l]
  <2>1. PICK l \in HostLists : parameters' = [parameters EXCEPT !.hosts = parameters.hosts \o l]
    BY <1>3
  <2>2. parameters.hosts \o l \in Seq(KnownHosts)
    <3>1. parameters.hosts \in Seq(KnownHosts) /\ l \in Seq(KnownHosts)
      BY <1>0, SetupAssumption DEF ParametersType
    <3>2. QED  BY <3>1
  <2>3. QED  BY <1>0, <2>1, <2>2 DEF InputInv, ParametersType
<1>4. ASSUME NEW baseline \in Commits, NEW new \in Commits,
             parameters' = CommitsAsked(parameters, Hash(baseline), Hash(new))
      PROVE  InputInv'
  <2>1. Hash(new) \in {NoCommit} \cup {Hash(c) : c \in Commits}
    OBVIOUS
  <2>2. /\ parameters' \in ParametersType /\ parameters'.isCustomCommitRange
        /\ parameters'.baselineCommit = Hash(baseline) /\ parameters'.newCommit = Hash(new)
    BY <1>0, <1>4, <2>1, CommitsAskedFields
  <2>3. QED  BY <1>0, <2>2 DEF InputInv
<1>5. ASSUME NEW baseline \in Commits, parameters' = CommitsAsked(parameters, Hash(baseline), NoCommit)
      PROVE  InputInv'
  <2>1. NoCommit \in {NoCommit} \cup {Hash(c) : c \in Commits}
    OBVIOUS
  <2>2. /\ parameters' \in ParametersType /\ parameters'.isCustomCommitRange
        /\ parameters'.baselineCommit = Hash(baseline) /\ ~parameters'.isComparison
    BY <1>0, <1>5, <2>1, CommitsAskedFields
  <2>3. QED  BY <1>0, <2>2 DEF InputInv
<1>6. CASE UNCHANGED parameters
  BY <1>0, <1>6 DEF InputInv
<1>7. QED  BY <1>1, <1>2, <1>3, <1>4, <1>5, <1>6 DEF ReadPart

(* Once they are read, the parameters stay. *)
LEMMA InputStays == InputInv /\ UNCHANGED <<ref, baselining, implementation, parameters>> => InputInv'
BY DEF InputInv, isPr

(* What may be asked for, along every step. *)
LEMMA InputNext == InputInv /\ [SetupNext]_setupVars => InputInv'
BY InputRead, InputStays
   DEF SetupNext, setupVars, ReadFails, Plan, PlanFails, BuildStep, BuildFails, Ended

(* What is asked for relative to HEAD is found while HEAD is what it was. *)
LEMMA Revs ==
  ASSUME InputInv
  PROVE  /\ parameters.isComparison => RevParse(parameters.newCommit, NumCommits) = HeadAfterNew
         /\ parameters.baselineCommit = HEAD => HeadAfterNew = BaselineAsked
         /\ RevParse(parameters.baselineCommit, HeadAfterNew) = BaselineAsked
<1>1. parameters.isComparison \in BOOLEAN /\ NumCommits \in Nat
  BY SetupAssumption DEF InputInv, ParametersType
<1>2. CASE parameters.isCustomCommitRange
  <2>1. PICK b \in Commits : parameters.baselineCommit = Hash(b)
    BY <1>2 DEF InputInv
  <2>2. parameters.baselineCommit.by = "hash" /\ HEAD.by = "head"
    BY <2>1 DEF Hash, HEAD
  <2>3. QED  BY <2>2 DEF RevParse, HeadAfterNew, NewAsked, BaselineAsked
<1>3. CASE ~parameters.isCustomCommitRange /\ isPr
  <2>1. /\ parameters.isComparison = TRUE /\ parameters.baselineCommit = ParentOfHEAD
        /\ parameters.newCommit = HEAD
    BY <1>3 DEF InputInv
  <2>2. RevParse(HEAD, NumCommits) = NumCommits
    BY <1>1 DEF RevParse, HEAD
  <2>3. HEAD # ParentOfHEAD
    BY DEF HEAD, ParentOfHEAD
  <2>4. QED  BY <2>1, <2>2, <2>3 DEF HeadAfterNew, NewAsked, BaselineAsked
<1>4. CASE ~parameters.isCustomCommitRange /\ ~isPr
  <2>1. ~parameters.isComparison /\ parameters.baselineCommit = HEAD
    BY <1>4 DEF InputInv
  <2>2. RevParse(HEAD, NumCommits) = NumCommits
    BY <1>1 DEF RevParse, HEAD
  <2>3. QED  BY <2>1, <2>2 DEF HeadAfterNew, NewAsked, BaselineAsked
<1>5. QED  BY <1>2, <1>3, <1>4

(* Nothing is built yet. *)
LEMMA SetupInvInit == SetupInit => SetupInv
<1>1. SetupInit => BuildInv
  BY DEF SetupInit, BuildInv
<1>2. QED  BY <1>1, InputInit DEF SetupInv

(* A step that fails, or that is not one of the build, leaves the clone alone. *)
LEMMA BuildStays ==
  ASSUME BuildInv, UNCHANGED <<parameters, clone>>, step' = step \/ step' = "failed"
  PROVE  BuildInv'
BY DEF BuildInv, clone, HeadAfterNew, NewAsked, BaselineAsked

(* Each step leaves HEAD and the compilers as the next one needs them. *)
LEMMA BuildStepKeeps ==
  ASSUME SetupInv, BuildStep
  PROVE  BuildInv'
<1>1. /\ UNCHANGED parameters /\ step' = After(step) /\ InputInv /\ BuildInv
      /\ NewAsked' = NewAsked /\ HeadAfterNew' = HeadAfterNew /\ BaselineAsked' = BaselineAsked
  BY DEF BuildStep, SetupInv, NewAsked, HeadAfterNew, BaselineAsked
<1>2. step \in {"switchToNew", "buildNew", "switchToBaseline", "buildBaseline", "publish"}
  BY StepsInOrder DEF BuildStep
<1>3. CASE step = "switchToNew"
  <2>1. step' = "buildNew" /\ head = NumCommits /\ built = [new |-> 0, baseline |-> 0]
    BY <1>1, <1>3, StepsInOrder DEF BuildInv
  <2>2. built' = built /\ head' = HeadAfterNew
    <3>1. CASE parameters.isComparison
      BY <1>1, <1>3, <2>1, <3>1, Revs DEF BuildStep, Skipped
    <3>2. CASE ~parameters.isComparison
      BY <1>3, <2>1, <3>2 DEF BuildStep, Skipped, clone, HeadAfterNew
    <3>3. QED  BY <3>1, <3>2
  <2>3. QED  BY <1>1, <2>1, <2>2, StepsInOrder DEF BuildInv
<1>4. CASE step = "buildNew"
  <2>1. step' = "switchToBaseline" /\ head = HeadAfterNew /\ built = [new |-> 0, baseline |-> 0]
    BY <1>1, <1>4, StepsInOrder DEF BuildInv
  <2>2. head' = HeadAfterNew /\ built' = [new |-> NewAsked, baseline |-> 0]
    <3>1. CASE parameters.isComparison
      BY <1>4, <2>1, <3>1 DEF BuildStep, Skipped, HeadAfterNew
    <3>2. CASE ~parameters.isComparison
      BY <1>4, <2>1, <3>2 DEF BuildStep, Skipped, clone, NewAsked
    <3>3. QED  BY <3>1, <3>2
  <2>3. QED  BY <1>1, <2>1, <2>2, StepsInOrder DEF BuildInv
<1>5. CASE step = "switchToBaseline"
  <2>1. step' = "buildBaseline" /\ head = HeadAfterNew /\ built = [new |-> NewAsked, baseline |-> 0]
    BY <1>1, <1>5, StepsInOrder DEF BuildInv
  <2>2. head' = BaselineAsked /\ built' = built
    <3>1. CASE parameters.baselineCommit = HEAD
      BY <1>1, <1>5, <2>1, <3>1, Revs DEF BuildStep, Skipped, clone
    <3>2. CASE parameters.baselineCommit # HEAD
      BY <1>1, <1>5, <2>1, <3>2, Revs DEF BuildStep, Skipped
    <3>3. QED  BY <3>1, <3>2
  <2>3. QED  BY <1>1, <2>1, <2>2, StepsInOrder DEF BuildInv
<1>6. CASE step = "buildBaseline"
  <2>1. step' = "publish" /\ head = BaselineAsked /\ built = [new |-> NewAsked, baseline |-> 0]
    BY <1>1, <1>6, StepsInOrder DEF BuildInv
  <2>2. built' = [new |-> NewAsked, baseline |-> BaselineAsked]
    BY <1>6, <2>1 DEF BuildStep, Skipped
  <2>3. QED  BY <1>1, <2>1, <2>2, StepsInOrder DEF BuildInv
<1>7. CASE step = "publish"
  <2>1. step' = "succeeded" /\ built = [new |-> NewAsked, baseline |-> BaselineAsked] /\ built' = built
    BY <1>1, <1>7, StepsInOrder DEF BuildInv, BuildStep, clone
  <2>2. QED  BY <1>1, <2>1, StepsInOrder DEF BuildInv
<1>8. QED  BY <1>2, <1>3, <1>4, <1>5, <1>6, <1>7

(* The inductive invariant of the build. *)
LEMMA SetupInvNext == SetupInv /\ [SetupNext]_setupVars => SetupInv'
<1> SUFFICES ASSUME SetupInv, [SetupNext]_setupVars PROVE BuildInv'
  BY InputNext DEF SetupInv
<1>1. BuildInv
  BY DEF SetupInv
<1>2. CASE ReadPart
  BY <1>1, <1>2, StepsInOrder DEF ReadPart, BuildInv, clone
<1>3. CASE ReadFails \/ PlanFails
  BY <1>1, <1>3, BuildStays DEF ReadFails, PlanFails
<1>4. CASE Plan
  BY <1>1, <1>4, StepsInOrder DEF Plan, BuildInv, clone
<1>5. CASE BuildStep
  BY <1>5, BuildStepKeeps
<1>6. CASE BuildFails
  BY <1>1, <1>6, BuildStays DEF BuildFails
<1>7. CASE Ended \/ UNCHANGED setupVars
  BY <1>1, <1>7, BuildStays DEF Ended, setupVars
<1>8. QED  BY <1>2, <1>3, <1>4, <1>5, <1>6, <1>7 DEF SetupNext

(* The compilers that benchmark.yml builds are those of the commits that setupPipeline *)
(* read, resolved in the clone as it was before the first of them was switched to: the *)
(* step "switch to baseline" may be skipped only where HEAD is still the right commit,  *)
(* and HEAD^1 is asked for only while HEAD is the pull request.                         *)
THEOREM BuiltAsAsked == SetupSpec => []BuildsWhatIsAsked
<1>1. SetupInv => BuildsWhatIsAsked
  BY DEF SetupInv, BuildInv, BuildsWhatIsAsked, NewAsked, BaselineAsked
<1>2. QED  BY <1>1, SetupInvInit, SetupInvNext, PTL DEF SetupSpec

-----------------------------------------------------------------------------
(* Setup: lists of lists. *)

(* Induction, as a fact about the set of the numbers that have the property. *)
LEMMA NatInd ==
  ASSUME NEW T, 0 \in T, \A n \in Nat : n \in T => n + 1 \in T
  PROVE  Nat \subseteq T
<1> DEFINE R == {ss \in Nat \X Nat : ss[1] < ss[2]}
<1>1. SUFFICES ASSUME Nat \ T # {} PROVE FALSE
  OBVIOUS
<1>2. PICK x \in Nat \ T : \A y \in Nat \ T : <<y, x>> \notin R
  <2>1. IsWellFoundedOn(R, Nat)
    BY NatLessThanWellFounded DEF OpToRel
  <2> HIDE DEF R
  <2>2. QED  BY <1>1, <2>1, WFMin
<1>3. x # 0 /\ x - 1 \in Nat
  OBVIOUS
<1>4. x - 1 \notin T
  BY <1>3
<1>5. <<x - 1, x>> \in R
  BY <1>3
<1>6. QED  BY <1>2, <1>3, <1>4, <1>5

(* What FlattenSeq goes through: h[i] is the first i sequences in a row. *)
Flattens(h, n, ss) == \A i \in 1 .. n : h[i] = IF i = 1 THEN ss[i] ELSE h[i - 1] \o ss[i]

(* FlattenSeq is the last of a chain of appends. *)
LEMMA FlattenUnrolled ==
  ASSUME NEW T, NEW N \in Nat \ {0}, NEW ss \in [1 .. N -> Seq(T)]
  PROVE  \E h \in [1 .. N -> Seq(T)] : h[N] = FlattenSeq(ss) /\ Flattens(h, N, ss)
<1> DEFINE U == {n \in Nat : n + 1 <= N => \E h \in [1 .. n + 1 -> Seq(T)] : Flattens(h, n + 1, ss)}
<1>1. 0 \in U
  <2> DEFINE h == [i \in 1 .. 0 + 1 |-> ss[i]]
  <2>1. 1 .. 0 + 1 = {1}
    OBVIOUS
  <2>2. h \in [1 .. 0 + 1 -> Seq(T)] /\ Flattens(h, 0 + 1, ss)
    BY <2>1 DEF Flattens
  <2>3. QED  BY <2>2
<1>2. ASSUME NEW n \in Nat, n \in U PROVE n + 1 \in U
  <2> SUFFICES ASSUME n + 1 + 1 <= N PROVE \E g \in [1 .. n + 1 + 1 -> Seq(T)] : Flattens(g, n + 1 + 1, ss)
    OBVIOUS
  <2>1. PICK h \in [1 .. n + 1 -> Seq(T)] : Flattens(h, n + 1, ss)
    BY <1>2
  <2> DEFINE g == [i \in 1 .. n + 1 + 1 |-> IF i = n + 2 THEN h[n + 1] \o ss[n + 2] ELSE h[i]]
  <2>2. h[n + 1] \in Seq(T) /\ ss[n + 2] \in Seq(T)
    OBVIOUS
  <2>3. h[n + 1] \o ss[n + 2] \in Seq(T)
    BY <2>2
  <2>4. \A i \in 1 .. n + 1 + 1 : i = n + 2 \/ i \in 1 .. n + 1
    OBVIOUS
  <2>5. g \in [1 .. n + 1 + 1 -> Seq(T)]
    BY <2>3, <2>4
  <2>6. ASSUME NEW i \in 1 .. n + 1 + 1 PROVE g[i] = IF i = 1 THEN ss[i] ELSE g[i - 1] \o ss[i]
    <3>0. \A j \in 1 .. n + 1 : j \in 1 .. n + 1 + 1 /\ g[j] = h[j]
      <4>1. \A j \in 1 .. n + 1 : j \in 1 .. n + 1 + 1 /\ j # n + 2
        OBVIOUS
      <4>2. QED  BY <4>1
    <3>1. CASE i = n + 2
      <4>0. g[i] = h[n + 1] \o ss[n + 2]
        BY <3>1
      <4>1. g[i] = h[n + 1] \o ss[n + 2] /\ n + 1 \in 1 .. n + 1 /\ i - 1 = n + 1 /\ i # 1
        <5> HIDE DEF g
        <5> QED  BY <3>1, <4>0
      <4>2. g[i - 1] = h[n + 1]
        BY <3>0, <4>1
      <4> HIDE DEF g
      <4>3. QED  BY <3>1, <4>1, <4>2
    <3>2. CASE i \in 1 .. n + 1
      <4>0. i # 1 => i - 1 \in 1 .. n + 1
        BY <3>2
      <4> HIDE DEF g
      <4>1. g[i] = h[i] /\ (i # 1 => i - 1 \in 1 .. n + 1 /\ g[i - 1] = h[i - 1])
        BY <3>0, <3>2, <4>0
      <4>2. h[i] = IF i = 1 THEN ss[i] ELSE h[i - 1] \o ss[i]
        BY <2>1, <3>2 DEF Flattens
      <4> HIDE DEF g
      <4>3. QED  BY <4>1, <4>2
    <3>3. QED  BY <2>4, <3>1, <3>2
  <2>7. Flattens(g, n + 1 + 1, ss)
    BY <2>6 DEF Flattens
  <2>8. QED  BY <2>5, <2>7
<1>3. Nat \subseteq U
  <2> HIDE DEF U
  <2> QED  BY <1>1, <1>2, NatInd
<1>4. PICK h \in [1 .. N -> Seq(T)] : Flattens(h, N, ss)
  <2>1. N - 1 \in U /\ N - 1 + 1 = N
    <3>1. N - 1 \in Nat /\ N - 1 + 1 = N
      OBVIOUS
    <3> HIDE DEF U
    <3>2. QED  BY <1>3, <3>1
  <2>2. QED  BY <2>1
<1>5. Len(ss) = N /\ N # 0
  OBVIOUS
<1> DEFINE Concat(f) == [i \in 1 .. N |-> IF i = 1 THEN ss[i] ELSE f[i - 1] \o ss[i]]
           flatten == CHOOSE f : f = Concat(f)
<1>6. FlattenSeq(ss) = flatten[N]
  BY <1>5 DEF FlattenSeq
<1>7. h = [i \in 1 .. N |-> h[i]]
  OBVIOUS
<1>8. \A i \in 1 .. N : h[i] = IF i = 1 THEN ss[i] ELSE h[i - 1] \o ss[i]
  BY <1>4 DEF Flattens
<1>9. h = Concat(h)
  BY <1>7, <1>8
<1>10. flatten = Concat(flatten)
  <2>1. \E f : f = Concat(f)
    BY <1>9
  <2> HIDE DEF Concat
  <2>2. QED  BY <2>1
<1>11. flatten \in [1 .. N -> Seq(T)] /\ Flattens(flatten, N, ss)
  <2> DEFINE V == {n \in Nat : n + 1 <= N => flatten[n + 1] = h[n + 1]}
  <2> HIDE DEF flatten
  <2>0. \A i \in 1 .. N : flatten[i] = IF i = 1 THEN ss[i] ELSE flatten[i - 1] \o ss[i]
    BY <1>10
  <2>1. 0 \in V
    <3>1. 0 + 1 = 1 /\ 1 \in 1 .. N
      OBVIOUS
    <3>2. QED  BY <1>8, <2>0, <3>1
  <2>2. ASSUME NEW n \in Nat, n \in V PROVE n + 1 \in V
    <3> SUFFICES ASSUME n + 1 + 1 <= N PROVE flatten[n + 1 + 1] = h[n + 1 + 1]
      OBVIOUS
    <3>1. n + 1 + 1 \in 1 .. N /\ n + 1 + 1 # 1 /\ (n + 1 + 1) - 1 = n + 1 /\ flatten[n + 1] = h[n + 1]
      BY <2>2
    <3>2. flatten[n + 1 + 1] = flatten[n + 1] \o ss[n + 1 + 1]
      BY <2>0, <3>1
    <3>3. h[n + 1 + 1] = h[n + 1] \o ss[n + 1 + 1]
      BY <1>8, <3>1
    <3> HIDE DEF V, Concat
    <3>4. QED  BY <3>1, <3>2, <3>3
  <2>3. Nat \subseteq V
    <3> HIDE DEF V
    <3> QED  BY <2>1, <2>2, NatInd
  <2>4. ASSUME NEW i \in 1 .. N PROVE flatten[i] = h[i]
    <3>1. i - 1 \in V /\ (i - 1) + 1 = i /\ i <= N
      <4>1. i - 1 \in Nat /\ (i - 1) + 1 = i /\ i <= N
        OBVIOUS
      <4> HIDE DEF V
      <4>2. QED  BY <2>3, <4>1
    <3>2. QED  BY <3>1
  <2>5. flatten = [i \in 1 .. N |-> flatten[i]]
    BY <1>10
  <2> HIDE DEF Concat, V
  <2>6. flatten \in [1 .. N -> Seq(T)]
    BY <2>4, <2>5
  <2>7. QED  BY <2>0, <2>6 DEF Flattens
<1>12. QED  
  <2> HIDE DEF flatten
  <2> QED  BY <1>6, <1>11

(* Where each place of FlattenSeq(ss) comes from: a sequence of ss and a place in it. *)
Located(f, n, ss, loc) ==
  /\ \A p \in 1 .. Len(f) :
       /\ loc[p][1] \in 1 .. n /\ loc[p][2] \in 1 .. Len(ss[loc[p][1]])
       /\ f[p] = ss[loc[p][1]][loc[p][2]]
  /\ \A p, q \in 1 .. Len(f) : loc[p][1] = loc[q][1] /\ loc[p][2] = loc[q][2] => p = q
  /\ \A i \in 1 .. n : \A k \in 1 .. Len(ss[i]) :
       \E p \in 1 .. Len(f) : loc[p][1] = i /\ loc[p][2] = k

(* One more sequence keeps the places and adds its own. *)
LEMMA LocatedAppend ==
  ASSUME NEW T, NEW n \in Nat, NEW ss, NEW f \in Seq(T), NEW g \in Seq(T), ss[n + 1] = g,
         NEW loc, Located(f, n, ss, loc)
  PROVE  \E l : Located(f \o g, n + 1, ss, l)
<1> DEFINE l == [p \in 1 .. Len(f \o g) |-> IF p <= Len(f) THEN loc[p] ELSE <<n + 1, p - Len(f)>>]
<1>1. /\ Len(f) \in Nat /\ Len(g) \in Nat /\ Len(f \o g) = Len(f) + Len(g)
      /\ \A p \in 1 .. Len(f) : (f \o g)[p] = f[p]
      /\ \A k \in 1 .. Len(g) : (f \o g)[Len(f) + k] = g[k]
  OBVIOUS
<1>2. ASSUME NEW p \in 1 .. Len(f \o g)
      PROVE  \/ p \in 1 .. Len(f) /\ l[p] = loc[p]
             \/ p - Len(f) \in 1 .. Len(g) /\ l[p] = <<n + 1, p - Len(f)>> /\ p = Len(f) + (p - Len(f))
  BY <1>1
<1>3. \A p \in 1 .. Len(f) : p \in 1 .. Len(f \o g) /\ l[p] = loc[p]
  BY <1>1
<1>4. \A k \in 1 .. Len(g) : Len(f) + k \in 1 .. Len(f \o g) /\ l[Len(f) + k] = <<n + 1, k>>
  BY <1>1
<1>5. \A i \in 1 .. n : i \in 1 .. n + 1 /\ i # n + 1
  OBVIOUS
<1> HIDE DEF l
<1>6. ASSUME NEW p \in 1 .. Len(f \o g)
      PROVE  /\ l[p][1] \in 1 .. n + 1 /\ l[p][2] \in 1 .. Len(ss[l[p][1]])
             /\ (f \o g)[p] = ss[l[p][1]][l[p][2]]
  <2>1. CASE p \in 1 .. Len(f) /\ l[p] = loc[p]
    BY <1>1, <1>5, <2>1 DEF Located
  <2>2. CASE p - Len(f) \in 1 .. Len(g) /\ l[p] = <<n + 1, p - Len(f)>> /\ p = Len(f) + (p - Len(f))
    <3>1. l[p][1] = n + 1 /\ l[p][2] = p - Len(f) /\ n + 1 \in 1 .. n + 1
      BY <2>2
    <3>2. (f \o g)[p] = g[p - Len(f)]
      BY <1>1, <2>2
    <3>3. QED  BY <2>2, <3>1, <3>2
  <2>3. QED  BY <1>2, <2>1, <2>2
<1>7. ASSUME NEW p \in 1 .. Len(f \o g), NEW q \in 1 .. Len(f \o g), l[p][1] = l[q][1], l[p][2] = l[q][2]
      PROVE  p = q
  <2>1. CASE p \in 1 .. Len(f) /\ l[p] = loc[p] /\ q \in 1 .. Len(f) /\ l[q] = loc[q]
    BY <1>7, <2>1 DEF Located
  <2>2. CASE p \in 1 .. Len(f) /\ l[p] = loc[p] /\ l[q] = <<n + 1, q - Len(f)>>
    BY <1>5, <1>7, <2>2 DEF Located
  <2>3. CASE q \in 1 .. Len(f) /\ l[q] = loc[q] /\ l[p] = <<n + 1, p - Len(f)>>
    BY <1>5, <1>7, <2>3 DEF Located
  <2>4. CASE /\ l[p] = <<n + 1, p - Len(f)>> /\ p = Len(f) + (p - Len(f))
             /\ l[q] = <<n + 1, q - Len(f)>> /\ q = Len(f) + (q - Len(f))
    <3>1. p - Len(f) = q - Len(f)
      BY <1>7, <2>4
    <3>2. QED  BY <2>4, <3>1
  <2>5. QED  BY <1>2, <2>1, <2>2, <2>3, <2>4
<1>8. ASSUME NEW i \in 1 .. n + 1, NEW k \in 1 .. Len(ss[i])
      PROVE  \E p \in 1 .. Len(f \o g) : l[p][1] = i /\ l[p][2] = k
  <2>1. CASE i \in 1 .. n
    <3>1. PICK p \in 1 .. Len(f) : loc[p][1] = i /\ loc[p][2] = k
      BY <2>1 DEF Located
    <3>2. QED  BY <1>3, <3>1
  <2>2. CASE i = n + 1
    <3>1. k \in 1 .. Len(g) /\ Len(f) + k \in 1 .. Len(f \o g) /\ l[Len(f) + k] = <<n + 1, k>>
      BY <1>4, <2>2
    <3>2. l[Len(f) + k][1] = i /\ l[Len(f) + k][2] = k
      BY <2>2, <3>1
    <3>3. QED  BY <3>1, <3>2
  <2>3. QED  BY <2>1, <2>2
<1>9. Located(f \o g, n + 1, ss, l)
  BY <1>6, <1>7, <1>8 DEF Located
<1>10. QED  BY <1>9

(* Every place of every sequence is one place of all of them in a row, and back. *)
LEMMA FlattenLocatedMany ==
  ASSUME NEW T, NEW N \in Nat \ {0}, NEW ss \in [1 .. N -> Seq(T)]
  PROVE  FlattenSeq(ss) \in Seq(T) /\ \E loc : Located(FlattenSeq(ss), N, ss, loc)
<1>1. PICK h \in [1 .. N -> Seq(T)] : h[N] = FlattenSeq(ss) /\ Flattens(h, N, ss)
  BY FlattenUnrolled
<1> DEFINE U == {n \in Nat : n + 1 <= N => \E loc : Located(h[n + 1], n + 1, ss, loc)}
<1>2. 0 \in U
  <2>1. h[1] = ss[1] /\ ss[1] \in Seq(T) /\ 0 + 1 = 1
    BY <1>1 DEF Flattens
  <2>2. h[1] = <<>> \o ss[1]
    BY <2>1
  <2>3. <<>> \in Seq(T) /\ Len(<<>>) = 0 /\ 1 .. 0 = {}
    OBVIOUS
  <2>4. Located(<<>>, 0, ss, <<>>)
    BY <2>3 DEF Located
  <2> HIDE DEF U
  <2>5. \E l : Located(<<>> \o ss[1], 0 + 1, ss, l)
    <3>1. 0 \in Nat /\ ss[0 + 1] = ss[1]
      OBVIOUS
    <3>2. QED  BY <2>1, <2>3, <2>4, <3>1, LocatedAppend
  <2>6. QED  BY <2>1, <2>2, <2>5 DEF U
<1>3. ASSUME NEW n \in Nat, n \in U PROVE n + 1 \in U
  <2> SUFFICES ASSUME n + 1 + 1 <= N PROVE \E loc : Located(h[n + 1 + 1], n + 1 + 1, ss, loc)
    OBVIOUS
  <2>1. PICK loc : Located(h[n + 1], n + 1, ss, loc)
    BY <1>3
  <2>2. /\ n + 1 \in Nat /\ n + 1 + 1 \in 1 .. N /\ n + 1 + 1 # 1 /\ (n + 1 + 1) - 1 = n + 1
        /\ h[n + 1] \in Seq(T) /\ ss[n + 1 + 1] \in Seq(T)
    OBVIOUS
  <2>3. h[n + 1 + 1] = h[n + 1] \o ss[n + 1 + 1]
    BY <1>1, <2>2 DEF Flattens
  <2> HIDE DEF U
  <2>4. \E l : Located(h[n + 1] \o ss[n + 1 + 1], n + 1 + 1, ss, l)
    BY <2>1, <2>2, LocatedAppend
  <2>5. QED  BY <2>3, <2>4
<1>4. Nat \subseteq U
  <2> HIDE DEF U
  <2> QED  BY <1>2, <1>3, NatInd
<1>5. N - 1 \in U /\ N - 1 + 1 = N
  <2>1. N - 1 \in Nat /\ N - 1 + 1 = N
    OBVIOUS
  <2> HIDE DEF U
  <2>2. QED  BY <1>4, <2>1
<1>6. \E loc : Located(h[N], N, ss, loc)
  BY <1>5
<1>7. N \in 1 .. N
  OBVIOUS
<1>8. QED  BY <1>1, <1>6, <1>7

(* The same when there may be no sequences. *)
LEMMA FlattenLocated ==
  ASSUME NEW T, NEW N \in Nat, NEW ss \in [1 .. N -> Seq(T)]
  PROVE  FlattenSeq(ss) \in Seq(T) /\ \E loc : Located(FlattenSeq(ss), N, ss, loc)
<1>1. CASE N # 0
  <2>1. N \in Nat \ {0}
    BY <1>1
  <2>2. QED  BY <2>1, FlattenLocatedMany
<1>2. CASE N = 0
  <2>1. 1 .. 0 = {}
    OBVIOUS
  <2>2. Len(ss) = 0 /\ ss \in Seq(Seq(T))
    BY <1>2
  <2>3. ss = <<>>
    BY <2>2
  <2>4. FlattenSeq(ss) = <<>>
    BY <2>2, <2>3 DEF FlattenSeq
  <2>5. Len(<<>>) = 0 /\ <<>> \in Seq(T)
    OBVIOUS
  <2>6. Located(<<>>, 0, ss, <<>>)
    BY <2>1, <2>5 DEF Located
  <2>7. QED  BY <1>2, <2>4, <2>5, <2>6
<1>3. QED  BY <1>1, <1>2

-----------------------------------------------------------------------------
(* Setup: the jobs. *)

(* A scenario has a place in the list of its own, and a name of its own. *)
LEMMA ScenarioNames ==
  /\ DOMAIN AllScenarios = 1 .. 25
  /\ \A i, j \in DOMAIN AllScenarios : AllScenarios[i].name = AllScenarios[j].name => i = j
<1>1. DOMAIN AllScenarios = 1 .. 25
  BY DEF AllScenarios
<1>2. 1 .. 25 = {1, 2, 3, 4, 5, 6, 7, 8, 9, 10, 11, 12, 13, 14, 15, 16, 17, 18, 19, 20, 21, 22, 23, 24, 25}
  OBVIOUS
<1>3. /\ AllScenarios[1].name = "angular-1"
      /\ AllScenarios[2].name = "Compiler-Unions"
      /\ AllScenarios[3].name = "vscode"
      /\ AllScenarios[4].name = "ts-pre-modules"
      /\ AllScenarios[5].name = "strada-compiler"
      /\ AllScenarios[6].name = "strada-build-src"
      /\ AllScenarios[7].name = "self-build-src-public-api"
      /\ AllScenarios[8].name = "mui-docs"
      /\ AllScenarios[9].name = "mui-docs-1"
      /\ AllScenarios[10].name = "webpack"
      /\ AllScenarios[11].name = "webpack-1"
      /\ AllScenarios[12].name = "xstate-main"
      /\ AllScenarios[13].name = "xstate-main-1"
      /\ AllScenarios[14].name = "Compiler-UnionsTSServer"
      /\ AllScenarios[15].name = "CompilerTSServer"
      /\ AllScenarios[16].name = "xstate-main-1-tsserver"
      /\ AllScenarios[17].name = "Compiler-UnionsLSP"
      /\ AllScenarios[18].name = "CompilerLSP"
      /\ AllScenarios[19].name = "xstate-main-1-LSP"
      /\ AllScenarios[20].name = "tsc-startup"
      /\ AllScenarios[21].name = "tsgo-startup"
      /\ AllScenarios[22].name = "tsserver-startup"
      /\ AllScenarios[23].name = "lsp-startup"
      /\ AllScenarios[24].name = "tsserverlibrary-startup"
      /\ AllScenarios[25].name = "typescript-startup"
  BY DEF AllScenarios, Scenario
<1>4. ASSUME NEW i \in 1 .. 25, NEW j \in 1 .. 25, AllScenarios[i].name = AllScenarios[j].name PROVE i = j
  <2>1. CASE i \in {1, 2, 3, 4, 5}
    BY <1>2, <1>3, <1>4, <2>1, SMTT(30)
  <2>2. CASE i \in {6, 7, 8, 9, 10}
    BY <1>2, <1>3, <1>4, <2>2, SMTT(30)
  <2>3. CASE i \in {11, 12, 13, 14, 15}
    BY <1>2, <1>3, <1>4, <2>3, SMTT(30)
  <2>4. CASE i \in {16, 17, 18, 19, 20}
    BY <1>2, <1>3, <1>4, <2>4, SMTT(30)
  <2>5. CASE i \in {21, 22, 23, 24, 25}
    BY <1>2, <1>3, <1>4, <2>5, SMTT(30)
  <2>6. QED  BY <1>2, <2>1, <2>2, <2>3, <2>4, <2>5
<1>5. QED  BY <1>1, <1>4

(* What is planned: on which hosts a scenario is measured, and how often. *)
MeasuredType == [scenario : ToSet(AllScenarios), host : KnownHosts,
                 iterations : {DefaultIterations, DefaultIterations * 2}]

PresetRow(preset, s) ==
  IF RunsIn(preset, s)
  THEN [i \in DOMAIN PresetHosts(preset, s) |->
          Measured(s, PresetHosts(preset, s)[i], PresetIterations(preset, s))]
  ELSE <<>>

WorkerIterations(m) == IF isCorsa THEN CorsaIterations ELSE m.iterations
WorkerRow(m) ==
  IF Supported(m.scenario)
  THEN [i \in DOMAIN ScenarioHosts(m) |->
          Measured(m.scenario, ScenarioHosts(m)[i], WorkerIterations(m))]
  ELSE <<>>

PresetRows(preset) == [i \in DOMAIN AllScenarios |-> PresetRow(preset, AllScenarios[i])]
WorkerRows(measured) == [i \in DOMAIN measured |-> WorkerRow(measured[i])]

(* The generators yield one row for each scenario, and for each entry of the preset. *)
LEMMA RowsInARow ==
  ASSUME NEW preset, NEW measured
  PROVE  Preset(preset) = FlattenSeq(PresetRows(preset)) /\ Worker(measured) = FlattenSeq(WorkerRows(measured))
<1>1. Preset(preset) = FlattenSeq(PresetRows(preset))
  BY DEF Preset, PresetRows, PresetRow
<1>2. Worker(measured) = FlattenSeq(WorkerRows(measured))
  BY DEF Worker, WorkerRows, WorkerRow, WorkerIterations
<1>3. QED  BY <1>1, <1>2

(* A preset names hosts of the table `hosts`. *)
LEMMA PresetHostsKnown ==
  ASSUME NEW preset, NEW s
  PROVE  PresetHosts(preset, s) \in Seq(KnownHosts)
<1>1. {"node20", "node18", "bun", "vscode", "native"} \subseteq KnownHosts
  BY SetupAssumption
<1>2. /\ <<"node20", "node18">> \in Seq(KnownHosts) /\ <<"bun">> \in Seq(KnownHosts) /\ <<>> \in Seq(KnownHosts)
      /\ <<"vscode">> \in Seq(KnownHosts) /\ <<"native">> \in Seq(KnownHosts) /\ <<"node18">> \in Seq(KnownHosts)
  BY <1>1
<1> DEFINE a == <<"node20", "node18">>
           b == <<"bun">>
           c == <<"vscode">>
           d == <<"native">>
           e == <<"node18">>
<1>3. PresetHosts(preset, s) \in {a, b, c, d, e, <<>>}
  <2> DEFINE A == preset \in {"baseline", "full"} /\ s.kind = "tsc"
             B == preset = "bun"
             C == preset = "vscode"
             D == preset \in DOMAIN OnlyKind /\ s.kind # OnlyKind[preset]
             BB == s.kind = "tsc" \/ (s.kind = "startup" /\ s.name # "tsserver-startup")
             E == s.kind = "lsp"
  <2>1. PresetHosts(preset, s) = CASE A -> a [] B -> IF BB THEN b ELSE <<>> [] C -> c [] D -> <<>>
                                   [] OTHER -> IF E THEN d ELSE e
    BY DEF PresetHosts
  <2> HIDE DEF A, B, C, D, BB, E, a, b, c, d, e
  <2>2. QED  BY <2>1
<1> HIDE DEF a, b, c, d, e
<1>4. QED  BY <1>2, <1>3 DEF a, b, c, d, e

(* What a preset yields for a scenario: one entry for each of its hosts, if it runs it. *)
LEMMA PresetRowIs ==
  ASSUME NEW preset, NEW s \in ToSet(AllScenarios)
  PROVE  /\ PresetRow(preset, s) \in Seq(MeasuredType)
         /\ \A l \in 1 .. Len(PresetRow(preset, s)) :
              /\ RunsIn(preset, s) /\ l \in 1 .. Len(PresetHosts(preset, s))
              /\ PresetRow(preset, s)[l] = Measured(s, PresetHosts(preset, s)[l], PresetIterations(preset, s))
         /\ RunsIn(preset, s) => Len(PresetRow(preset, s)) = Len(PresetHosts(preset, s))
<1> DEFINE h == PresetHosts(preset, s)
           n == PresetIterations(preset, s)
           row == [i \in DOMAIN h |-> Measured(s, h[i], n)]
<1>1. h \in Seq(KnownHosts)
  BY PresetHostsKnown
<1>2. n \in {DefaultIterations, DefaultIterations * 2}
  BY DEF PresetIterations
<1>3. PresetRow(preset, s) = IF RunsIn(preset, s) THEN row ELSE <<>>
  BY DEF PresetRow
<1> HIDE DEF h, n
<1>4. \A i \in 1 .. Len(h) : Measured(s, h[i], n) \in MeasuredType
  BY <1>1, <1>2 DEF MeasuredType, Measured
<1>5. DOMAIN h = 1 .. Len(h) /\ Len(h) \in Nat
  BY <1>1
<1>6. row \in Seq(MeasuredType) /\ Len(row) = Len(h) /\ \A i \in 1 .. Len(h) : row[i] = Measured(s, h[i], n)
  BY <1>4, <1>5
<1> HIDE DEF row
<1>7. <<>> \in Seq(MeasuredType) /\ Len(<<>>) = 0 /\ 1 .. 0 = {}
  OBVIOUS
<1>8. CASE RunsIn(preset, s)
  BY <1>3, <1>6, <1>8 DEF h, n
<1>9. CASE ~RunsIn(preset, s)
  BY <1>3, <1>7, <1>9
<1>10. QED  BY <1>8, <1>9

(* The hosts an entry is spread over. *)
LEMMA ScenarioHostsKnown ==
  ASSUME InputInv, NEW m \in MeasuredType
  PROVE  ScenarioHosts(m) \in Seq(KnownHosts)
<1>1. parameters.hosts \in Seq(KnownHosts)
  BY DEF InputInv, ParametersType
<1>2. "native" \in KnownHosts /\ m.host \in KnownHosts
  BY SetupAssumption DEF MeasuredType
<1>3. <<"native">> \in Seq(KnownHosts) /\ <<m.host>> \in Seq(KnownHosts)
  BY <1>2
<1>4. QED  BY <1>1, <1>3 DEF ScenarioHosts

(* What transformPreset yields for an entry: one for each host, if it is supported. *)
LEMMA WorkerRowIs ==
  ASSUME InputInv, NEW m \in MeasuredType
  PROVE  /\ WorkerRow(m) \in Seq(MeasuredType)
         /\ \A k \in 1 .. Len(WorkerRow(m)) :
              /\ Supported(m.scenario) /\ k \in 1 .. Len(ScenarioHosts(m))
              /\ WorkerRow(m)[k] = Measured(m.scenario, ScenarioHosts(m)[k], WorkerIterations(m))
         /\ Supported(m.scenario) => Len(WorkerRow(m)) = Len(ScenarioHosts(m))
<1> DEFINE h == ScenarioHosts(m)
           s == m.scenario
           n == WorkerIterations(m)
           row == [i \in DOMAIN h |-> Measured(s, h[i], n)]
<1>1. h \in Seq(KnownHosts)
  BY ScenarioHostsKnown
<1>2. n \in {DefaultIterations, DefaultIterations * 2} /\ s \in ToSet(AllScenarios)
  BY DEF WorkerIterations, MeasuredType, CorsaIterations, DefaultIterations
<1>3. WorkerRow(m) = IF Supported(s) THEN row ELSE <<>>
  BY DEF WorkerRow
<1> HIDE DEF h, n, s
<1>4. \A i \in 1 .. Len(h) : Measured(s, h[i], n) \in MeasuredType
  BY <1>1, <1>2 DEF MeasuredType, Measured
<1>5. DOMAIN h = 1 .. Len(h) /\ Len(h) \in Nat
  BY <1>1
<1>6. row \in Seq(MeasuredType) /\ Len(row) = Len(h) /\ \A i \in 1 .. Len(h) : row[i] = Measured(s, h[i], n)
  BY <1>4, <1>5
<1> HIDE DEF row
<1>7. <<>> \in Seq(MeasuredType) /\ Len(<<>>) = 0 /\ 1 .. 0 = {}
  OBVIOUS
<1>8. CASE Supported(s)
  BY <1>3, <1>6, <1>8 DEF h, n, s
<1>9. CASE ~Supported(s)
  BY <1>3, <1>7, <1>9 DEF s
<1>10. QED  BY <1>8, <1>9

(* Whom the plan is made for. *)
Given == IF isCorsa THEN <<"native">> ELSE parameters.hosts
HostsFor(h) == IF Given = <<>> THEN <<h>> ELSE Given
Asked(s) == PresetHosts(parameters.preset, s)
Chosen(s) == RunsIn(parameters.preset, s) /\ Supported(s)
Iterations(s) == IF isCorsa THEN CorsaIterations ELSE PresetIterations(parameters.preset, s)

(* Where an entry of the plan comes from: a scenario, a host of the preset, and one *)
(* that takes its place.                                                           *)
Origin(all, at) ==
  /\ \A p \in 1 .. Len(all) :
       /\ at[p][1] \in DOMAIN AllScenarios /\ Chosen(AllScenarios[at[p][1]])
       /\ at[p][2] \in 1 .. Len(Asked(AllScenarios[at[p][1]]))
       /\ at[p][3] \in 1 .. Len(HostsFor(Asked(AllScenarios[at[p][1]])[at[p][2]]))
       /\ all[p] = Measured(AllScenarios[at[p][1]],
                            HostsFor(Asked(AllScenarios[at[p][1]])[at[p][2]])[at[p][3]],
                            Iterations(AllScenarios[at[p][1]]))
  /\ \A p, q \in 1 .. Len(all) :
       at[p][1] = at[q][1] /\ at[p][2] = at[q][2] /\ at[p][3] = at[q][3] => p = q
  /\ \A i \in DOMAIN AllScenarios :
       Chosen(AllScenarios[i]) =>
         \A l \in 1 .. Len(Asked(AllScenarios[i])) :
           \A k \in 1 .. Len(HostsFor(Asked(AllScenarios[i])[l])) :
             \E p \in 1 .. Len(all) : at[p][1] = i /\ at[p][2] = l /\ at[p][3] = k


(* An entry is spread over the hosts that are asked for, or stays on its own. *)
LEMMA HostsForIs ==
  ASSUME NEW s, NEW h, NEW n
  PROVE  ScenarioHosts(Measured(s, h, n)) = HostsFor(h)
<1>1. Measured(s, h, n).host = h
  BY DEF Measured
<1>2. <<"native">> # <<>>
  OBVIOUS
<1>3. QED  BY <1>1, <1>2 DEF ScenarioHosts, HostsFor, Given

(* Every entry that is planned has one origin, and every origin one entry. *)
LEMMA PlanHasOrigin ==
  ASSUME InputInv
  PROVE  planned \in Seq(MeasuredType) /\ \E at : Origin(planned, at)
<1> DEFINE preset == parameters.preset
           measured == Preset(preset)
           rows == PresetRows(preset)
           works == WorkerRows(measured)
<1>1. DOMAIN AllScenarios = 1 .. 25 /\ 25 \in Nat /\ \A i \in 1 .. 25 : AllScenarios[i] \in ToSet(AllScenarios)
  BY ScenarioNames DEF ToSet
<1>2. rows \in [1 .. 25 -> Seq(MeasuredType)] /\ \A i \in 1 .. 25 : rows[i] = PresetRow(preset, AllScenarios[i])
  BY <1>1, PresetRowIs DEF PresetRows
<1>3. measured = FlattenSeq(rows) /\ planned = FlattenSeq(works)
  BY RowsInARow DEF planned
<1>4. measured \in Seq(MeasuredType) /\ \E loc : Located(measured, 25, rows, loc)
  <2> HIDE DEF rows, works, measured
  <2> QED  BY <1>1, <1>2, <1>3, FlattenLocated
<1>5. PICK a : Located(measured, 25, rows, a)
  BY <1>4
<1>6. Len(measured) \in Nat /\ DOMAIN measured = 1 .. Len(measured) /\ \A q \in 1 .. Len(measured) : measured[q] \in MeasuredType
  <2> HIDE DEF measured
  <2> QED  BY <1>4
<1>7. works \in [1 .. Len(measured) -> Seq(MeasuredType)] /\ \A q \in 1 .. Len(measured) : works[q] = WorkerRow(measured[q])
  <2> HIDE DEF measured
  <2> QED  BY <1>6, WorkerRowIs DEF WorkerRows
<1> HIDE DEF rows, works, measured
<1>8. planned \in Seq(MeasuredType) /\ \E loc : Located(planned, Len(measured), works, loc)
  BY <1>3, <1>6, <1>7, FlattenLocated
<1>9. PICK b : Located(planned, Len(measured), works, b)
  BY <1>8
(* the entry of the preset *)
<1>10. ASSUME NEW q \in 1 .. Len(measured)
       PROVE  /\ a[q][1] \in 1 .. 25 /\ RunsIn(preset, AllScenarios[a[q][1]])
              /\ a[q][2] \in 1 .. Len(Asked(AllScenarios[a[q][1]]))
              /\ measured[q] = Measured(AllScenarios[a[q][1]], Asked(AllScenarios[a[q][1]])[a[q][2]],
                                        PresetIterations(preset, AllScenarios[a[q][1]]))
  <2>1. /\ a[q][1] \in 1 .. 25 /\ a[q][2] \in 1 .. Len(rows[a[q][1]])
        /\ measured[q] = rows[a[q][1]][a[q][2]]
    BY <1>5 DEF Located
  <2>2. rows[a[q][1]] = PresetRow(preset, AllScenarios[a[q][1]]) /\ AllScenarios[a[q][1]] \in ToSet(AllScenarios)
    BY <1>1, <1>2, <2>1
  <2>3. QED  BY <2>1, <2>2, PresetRowIs DEF Asked
<1>11. ASSUME NEW s, NEW h, NEW n
       PROVE  /\ Measured(s, h, n).scenario = s
              /\ n = PresetIterations(preset, s) => WorkerIterations(Measured(s, h, n)) = Iterations(s)
  BY DEF Measured, WorkerIterations, Iterations
(* the entry of the plan *)
<1>12. ASSUME NEW p \in 1 .. Len(planned)
       PROVE  LET q == b[p][1]
                  s == AllScenarios[a[q][1]]
                  h == Asked(s)[a[q][2]]
              IN  /\ q \in 1 .. Len(measured) /\ Supported(s) /\ b[p][2] \in 1 .. Len(HostsFor(h))
                  /\ planned[p] = Measured(s, HostsFor(h)[b[p][2]], Iterations(s))
  <2> DEFINE q == b[p][1]
             s == AllScenarios[a[q][1]]
             h == Asked(s)[a[q][2]]
             n == PresetIterations(preset, s)
  <2>1. q \in 1 .. Len(measured) /\ b[p][2] \in 1 .. Len(works[q]) /\ planned[p] = works[q][b[p][2]]
    BY <1>9 DEF Located
  <2>2. works[q] = WorkerRow(measured[q]) /\ measured[q] \in MeasuredType /\ measured[q] = Measured(s, h, n)
    BY <1>6, <1>7, <1>10, <2>1
  <2>3. measured[q].scenario = s /\ WorkerIterations(measured[q]) = Iterations(s)
        /\ ScenarioHosts(measured[q]) = HostsFor(h)
    <3> HIDE DEF q, s, h
    <3> QED  BY <1>11, <2>2, HostsForIs
  <2>4. QED
    <3> HIDE DEF q, s, h
    <3>1. /\ q \in 1 .. Len(measured) /\ Supported(s) /\ b[p][2] \in 1 .. Len(HostsFor(h))
          /\ planned[p] = Measured(s, HostsFor(h)[b[p][2]], Iterations(s))
      BY <2>1, <2>2, <2>3, WorkerRowIs
    <3>2. QED  BY <3>1 DEF q, s, h
<1> DEFINE at == [p \in 1 .. Len(planned) |-> <<a[b[p][1]][1], a[b[p][1]][2], b[p][2]>>]
<1>13. \A p \in 1 .. Len(planned) : at[p][1] = a[b[p][1]][1] /\ at[p][2] = a[b[p][1]][2] /\ at[p][3] = b[p][2]
  OBVIOUS
<1> HIDE DEF at
<1>14. ASSUME NEW p \in 1 .. Len(planned)
       PROVE  /\ at[p][1] \in DOMAIN AllScenarios /\ Chosen(AllScenarios[at[p][1]])
              /\ at[p][2] \in 1 .. Len(Asked(AllScenarios[at[p][1]]))
              /\ at[p][3] \in 1 .. Len(HostsFor(Asked(AllScenarios[at[p][1]])[at[p][2]]))
              /\ planned[p] = Measured(AllScenarios[at[p][1]],
                                   HostsFor(Asked(AllScenarios[at[p][1]])[at[p][2]])[at[p][3]],
                                   Iterations(AllScenarios[at[p][1]]))
  BY <1>1, <1>10, <1>12, <1>13 DEF Chosen
<1>15. ASSUME NEW p \in 1 .. Len(planned), NEW q \in 1 .. Len(planned),
              at[p][1] = at[q][1], at[p][2] = at[q][2], at[p][3] = at[q][3]
       PROVE  p = q
  <2>1. b[p][1] \in 1 .. Len(measured) /\ b[q][1] \in 1 .. Len(measured)
    BY <1>9 DEF Located
  <2>2. b[p][1] = b[q][1]
    <3>1. /\ a[b[p][1]][1] = a[b[q][1]][1] /\ a[b[p][1]][2] = a[b[q][1]][2]
      BY <1>13, <1>15
    <3>2. \A x, y \in 1 .. Len(measured) : a[x][1] = a[y][1] /\ a[x][2] = a[y][2] => x = y
      BY <1>5 DEF Located
    <3>3. QED  BY <2>1, <3>1, <3>2
  <2>3. QED  BY <1>9, <1>13, <1>15, <2>2 DEF Located
<1>16. ASSUME NEW i \in DOMAIN AllScenarios, Chosen(AllScenarios[i]),
              NEW l \in 1 .. Len(Asked(AllScenarios[i])), NEW k \in 1 .. Len(HostsFor(Asked(AllScenarios[i])[l]))
       PROVE  \E p \in 1 .. Len(planned) : at[p][1] = i /\ at[p][2] = l /\ at[p][3] = k
  <2> DEFINE s == AllScenarios[i]
             h == Asked(s)[l]
             n == PresetIterations(preset, s)
  <2>1. i \in 1 .. 25 /\ rows[i] = PresetRow(preset, s) /\ s \in ToSet(AllScenarios) /\ RunsIn(preset, s) /\ Supported(s)
    BY <1>1, <1>2, <1>16 DEF Chosen
  <2>2. l \in 1 .. Len(rows[i])
    <3> HIDE DEF s
    <3>1. l \in 1 .. Len(Asked(s))
      BY DEF s
    <3>2. QED  BY <2>1, <3>1, PresetRowIs DEF Asked
  <2>3. PICK q \in 1 .. Len(measured) : a[q][1] = i /\ a[q][2] = l
    BY <1>5, <2>1, <2>2 DEF Located
  <2>4. measured[q] = Measured(s, h, n) /\ measured[q] \in MeasuredType /\ works[q] = WorkerRow(measured[q])
    BY <1>6, <1>7, <1>10, <2>3
  <2>5. k \in 1 .. Len(works[q])
    <3>1. k \in 1 .. Len(HostsFor(h))
      OBVIOUS
    <3> HIDE DEF s, h
    <3>2. ScenarioHosts(measured[q]) = HostsFor(h) /\ measured[q].scenario = s
      BY <1>11, <2>4, HostsForIs
    <3>3. QED  BY <2>1, <2>4, <3>1, <3>2, WorkerRowIs
  <2>6. PICK p \in 1 .. Len(planned) : b[p][1] = q /\ b[p][2] = k
    BY <1>9, <2>5 DEF Located
  <2>7. QED  BY <1>13, <2>3, <2>6
<1>17. Origin(planned, at)
  BY <1>14, <1>15, <1>16 DEF Origin
<1>18. QED  BY <1>8, <1>17

(* An entry of the plan is all that its scenario and its host say, and is kept if it *)
(* is the only one of them.                                                         *)
Determined(all) ==
  \A p, q \in DOMAIN all : all[p].scenario = all[q].scenario /\ all[p].host = all[q].host => all[p] = all[q]

(* A scenario is known by its name. *)
LEMMA NamesOfScenarios ==
  ASSUME NEW s \in ToSet(AllScenarios), NEW t \in ToSet(AllScenarios), s.name = t.name
  PROVE  s = t
<1>1. PICK i \in DOMAIN AllScenarios : s = AllScenarios[i]
  BY DEF ToSet
<1>2. PICK j \in DOMAIN AllScenarios : t = AllScenarios[j]
  BY DEF ToSet
<1>3. QED  BY <1>1, <1>2, ScenarioNames

(* The number of iterations does not tell two entries apart. *)
LEMMA PlanDetermined ==
  ASSUME InputInv
  PROVE  planned \in Seq(MeasuredType) /\ Determined(planned)
<1>1. PICK at : planned \in Seq(MeasuredType) /\ Origin(planned, at)
  BY PlanHasOrigin
<1>2. DOMAIN planned = 1 .. Len(planned)
  BY <1>1
<1>3. ASSUME NEW p \in 1 .. Len(planned)
      PROVE  planned[p] = Measured(planned[p].scenario, planned[p].host, Iterations(planned[p].scenario))
  <2> DEFINE s == AllScenarios[at[p][1]]
             h == HostsFor(Asked(s)[at[p][2]])[at[p][3]]
  <2>1. planned[p] = Measured(s, h, Iterations(s))
    BY <1>1 DEF Origin
  <2> HIDE DEF s, h
  <2>2. planned[p].scenario = s /\ planned[p].host = h
    BY <2>1 DEF Measured
  <2>3. QED  BY <2>1, <2>2
<1>4. Determined(planned)
  BY <1>2, <1>3 DEF Determined
<1>5. QED  BY <1>1, <1>4

(* Jobs have the names of their entries. *)
LEMMA JobNames ==
  ASSUME NEW m \in MeasuredType, NEW n \in MeasuredType, JobName(m) = JobName(n)
  PROVE  m.scenario = n.scenario /\ m.host = n.host
<1>1. Sanitized[m.host] = Sanitized[n.host] /\ m.scenario.name = n.scenario.name
  BY DEF JobName
<1>2. m.host \in KnownHosts /\ n.host \in KnownHosts
      /\ m.scenario \in ToSet(AllScenarios) /\ n.scenario \in ToSet(AllScenarios)
  BY DEF MeasuredType
<1>3. QED  BY <1>1, <1>2, NamesOfScenarios, SetupAssumption

(* Of the entries of a scenario on a host at most one is kept. *)
LEMMA OneKept ==
  ASSUME NEW all \in Seq(MeasuredType), Determined(all), NEW i \in Kept(all), NEW j \in Kept(all),
         all[i].scenario = all[j].scenario, all[i].host = all[j].host
  PROVE  i = j
<1>1. i \in DOMAIN all /\ j \in DOMAIN all
  BY DEF Kept
<1>2. all[i] = all[j]
  BY <1>1 DEF Determined
<1>3. QED  BY <1>1, <1>2 DEF Kept

(* The jobs of an agent are just those of the entries that are kept for it. *)
LEMMA MatrixOfKept ==
  ASSUME NEW all \in Seq(MeasuredType), Determined(all), NEW agent
  PROVE  Range(MatrixOf(all, agent)) = {Job(all[i]) : i \in {i \in Kept(all) : Agent(all[i]) = agent}}
<1> DEFINE mine == {i \in Kept(all) : Agent(all[i]) = agent}
           Latest(n) == CHOOSE i \in mine : JobName(all[i]) = n /\ \A j \in mine : JobName(all[j]) = n => j <= i
           names == {JobName(all[i]) : i \in mine}
<1>1. MatrixOf(all, agent) = [n \in names |-> Job(all[Latest(n)])]
  BY DEF MatrixOf
<1>2. mine \subseteq DOMAIN all /\ mine \subseteq Kept(all) /\ \A i \in mine : all[i] \in MeasuredType /\ i \in Nat
  BY DEF Kept
<1>3. ASSUME NEW i \in mine PROVE Latest(JobName(all[i])) = i
  <2>1. ASSUME NEW j \in mine, JobName(all[j]) = JobName(all[i]) PROVE j = i
    <3>1. all[j].scenario = all[i].scenario /\ all[j].host = all[i].host
      BY <1>2, <2>1, JobNames
    <3>2. QED  BY <1>2, <3>1, OneKept
  <2>2. i <= i
    BY <1>2
  <2> HIDE DEF mine
  <2>3. QED  BY <2>1, <2>2
<1> HIDE DEF mine, Latest
<1>4. Range(MatrixOf(all, agent)) = {Job(all[Latest(n)]) : n \in names}
  BY <1>1 DEF Range
<1>5. QED  BY <1>3, <1>4 DEF mine

PlanInv ==
  step \notin {"parse", "failed"} =>
    /\ matrix = [a \in Agents |-> MatrixOf(planned, a)]
    /\ processKinds = {planned[i].scenario.kind : i \in Kept(planned)}

(* The matrices and kinds are those of the plan once it is made. *)
LEMMA PlanInvInit == SetupInit => PlanInv
BY DEF SetupInit, PlanInv

(* The plan depends on nothing that changes after it is made. *)
LEMMA PlanStays ==
  ASSUME UNCHANGED <<ref, baselining, implementation, parameters>>
  PROVE  planned' = planned /\ \A a : MatrixOf(planned, a)' = MatrixOf(planned, a)
<1>1. isCorsa' = isCorsa
  BY DEF isCorsa
<1>2. planned' = planned
  BY <1>1 DEF planned, Worker, Preset, ScenarioHosts, Supported
<1>3. \A a : MatrixOf(planned, a)' = MatrixOf(planned, a)
  BY <1>2 DEF MatrixOf, Agent
<1>4. QED  BY <1>2, <1>3

(* No step of the build touches the matrices. *)
LEMMA PlanInvNext == BuildInv /\ PlanInv /\ [SetupNext]_setupVars => PlanInv'
<1> SUFFICES ASSUME BuildInv, PlanInv, [SetupNext]_setupVars PROVE PlanInv'
  OBVIOUS
<1>1. CASE ReadPart \/ ReadFails \/ PlanFails
  BY <1>1 DEF ReadPart, ReadFails, PlanFails, PlanInv
<1>2. CASE Plan
  <2>1. /\ UNCHANGED <<ref, baselining, implementation, parameters>>
        /\ matrix' = [a \in Agents |-> MatrixOf(planned, a)]
        /\ processKinds' = {planned[i].scenario.kind : i \in Kept(planned)}
    BY <1>2 DEF Plan
  <2>2. planned' = planned /\ \A a : MatrixOf(planned, a)' = MatrixOf(planned, a)
    BY <2>1, PlanStays
  <2>3. QED  BY <2>1, <2>2 DEF PlanInv
<1>3. CASE BuildStep \/ BuildFails \/ Ended \/ UNCHANGED setupVars
  <2>1. UNCHANGED <<ref, baselining, implementation, parameters, matrix, processKinds>>
    BY <1>3 DEF BuildStep, BuildFails, Ended, setupVars, plan
  <2>2. planned' = planned /\ \A a : MatrixOf(planned, a)' = MatrixOf(planned, a)
    BY <2>1, PlanStays
  <2>3. step' \notin {"parse", "failed"} => step \notin {"parse", "failed"}
    BY <1>3, StepsInOrder DEF BuildStep, BuildFails, Ended, setupVars
  <2>4. QED  BY <2>1, <2>2, <2>3 DEF PlanInv
<1>4. QED  BY <1>1, <1>2, <1>3 DEF SetupNext

(* The jobs once they are planned. *)
LEMMA JobsPlanned ==
  ASSUME InputInv, PlanInv, step \notin {"parse", "failed"}, NEW a \in Agents
  PROVE  JobsOf(a) = {Job(planned[i]) : i \in {i \in Kept(planned) : Agent(planned[i]) = a}}
<1>1. matrix[a] = MatrixOf(planned, a)
  BY DEF PlanInv
<1>2. QED  BY <1>1, PlanDetermined, MatrixOfKept DEF JobsOf

(* Each entry has an agent of the table, or may run on any. *)
LEMMA AgentKnown ==
  ASSUME NEW m \in MeasuredType
  PROVE  Agent(m) \in Agents
BY DEF Agent, Agents, MeasuredType

(* How often a host is in a list. *)
TimesIn(h, hosts) == Cardinality({i \in DOMAIN hosts : hosts[i] = h})

(* A count is 1 when there is just one place. *)
LEMMA TimesInIs ==
  ASSUME NEW T, NEW hosts \in Seq(T), NEW h
  PROVE  /\ TimesIn(h, hosts) \in Nat
         /\ \A i \in 1 .. Len(hosts) : hosts[i] = h => TimesIn(h, hosts) # 0
         /\ TimesIn(h, hosts) = 1 =>
              \E i \in 1 .. Len(hosts) : hosts[i] = h /\ \A j \in 1 .. Len(hosts) : hosts[j] = h => j = i
<1> DEFINE S == {i \in DOMAIN hosts : hosts[i] = h}
<1>1. DOMAIN hosts = 1 .. Len(hosts) /\ Len(hosts) \in Int /\ 1 \in Int
  OBVIOUS
<1>2. IsFiniteSet(S)
  <2>1. IsFiniteSet(DOMAIN hosts) /\ S \in SUBSET (DOMAIN hosts)
    BY <1>1, FS_Interval
  <2> HIDE DEF S
  <2>2. QED  BY <2>1, FS_Subset
<1>3. TimesIn(h, hosts) = Cardinality(S)
  BY DEF TimesIn
<1>4. /\ Cardinality(S) \in Nat /\ (Cardinality(S) = 0 => S = {})
      /\ Cardinality(S) = 1 => \E x : S = {x}
  <2> HIDE DEF S
  <2> QED  BY <1>2, FS_CardinalityType, FS_EmptySet, FS_Singleton
<1>5. ASSUME NEW i \in 1 .. Len(hosts), hosts[i] = h PROVE Cardinality(S) # 0
  <2>1. i \in S
    BY <1>1, <1>5
  <2> HIDE DEF S
  <2>2. QED  BY <1>4, <2>1
<1>6. ASSUME Cardinality(S) = 1
      PROVE  \E i \in 1 .. Len(hosts) : hosts[i] = h /\ \A j \in 1 .. Len(hosts) : hosts[j] = h => j = i
  <2>1. PICK x : S = {x}
    <3> HIDE DEF S
    <3> QED  BY <1>4, <1>6
  <2>2. x \in 1 .. Len(hosts) /\ hosts[x] = h /\ \A j \in 1 .. Len(hosts) : hosts[j] = h => j = x
    BY <1>1, <2>1
  <2>3. QED  BY <2>2
<1>7. QED  BY <1>3, <1>4, <1>5, <1>6

(* The count of the property, in the words of the origins. *)
LEMMA TimesAskedIs ==
  ASSUME NEW s, NEW h
  PROVE  TimesAsked(s, h) =
           IF ~Chosen(s) THEN 0
           ELSE IF Given = <<>> THEN TimesIn(h, Asked(s)) ELSE Len(Asked(s)) * TimesIn(h, Given)
BY DEF TimesAsked, Chosen, Given, TimesIn, Asked

(* The l-th host of the preset is replaced by h as the k-th host. *)
AskedAt(s, h, l, k) ==
  l \in 1 .. Len(Asked(s)) /\ k \in 1 .. Len(HostsFor(Asked(s)[l])) /\ HostsFor(Asked(s)[l])[k] = h

(* A product is 1 when both factors are. *)
LEMMA Products ==
  ASSUME NEW m \in Nat, NEW n \in Nat
  PROVE  /\ m # 0 /\ n # 0 => m * n # 0
         /\ m * n = 1 => m = 1 /\ n = 1
<1>1. CASE m = 0 \/ n = 0
  BY <1>1
<1>2. CASE m # 0 /\ n # 0
  <2>1. m * n >= m
    <3>1. n >= 1 /\ n - 1 \in Nat /\ m * (n - 1) >= 0 /\ m * n = m * (n - 1) + m
      BY <1>2
    <3>2. QED  BY <3>1
  <2>2. m * n >= n
    <3>1. m >= 1 /\ m - 1 \in Nat /\ (m - 1) * n >= 0 /\ m * n = (m - 1) * n + n
      BY <1>2
    <3>2. QED  BY <3>1
  <2>3. QED  BY <1>2, <2>1, <2>2
<1>3. QED  BY <1>1, <1>2

(* What has an origin is asked for, and what is asked for once has just one. *)
LEMMA AskedTimes ==
  ASSUME InputInv, NEW s, NEW h
  PROVE  /\ Chosen(s) => \A l, k : AskedAt(s, h, l, k) => TimesAsked(s, h) # 0
         /\ TimesAsked(s, h) = 1 =>
              /\ Chosen(s)
              /\ \E l, k : AskedAt(s, h, l, k) /\ \A x, y : AskedAt(s, h, x, y) => x = l /\ y = k
<1>1. parameters.hosts \in Seq(KnownHosts) /\ <<"native">> \in Seq(KnownHosts)
  <2>1. "native" \in KnownHosts
    BY SetupAssumption
  <2>2. QED  BY <2>1 DEF InputInv, ParametersType
<1>2. Given \in Seq(KnownHosts) /\ Asked(s) \in Seq(KnownHosts)
  BY <1>1, PresetHostsKnown DEF Given, Asked
<1>3. Len(Given) \in Nat /\ Len(Asked(s)) \in Nat
  BY <1>2
<1>4. CASE Given = <<>>
  <2>1. \A x : HostsFor(x) = <<x>> /\ Len(<<x>>) = 1 /\ <<x>>[1] = x
    BY <1>4 DEF HostsFor
  <2>2. \A l, k : AskedAt(s, h, l, k) <=> l \in 1 .. Len(Asked(s)) /\ k = 1 /\ Asked(s)[l] = h
    <3>1. 1 .. 1 = {1}
      OBVIOUS
    <3>2. QED  BY <2>1, <3>1 DEF AskedAt
  <2>3. Chosen(s) => TimesAsked(s, h) = TimesIn(h, Asked(s))
    BY <1>4, TimesAskedIs
  <2>4. ~Chosen(s) => TimesAsked(s, h) = 0
    BY TimesAskedIs
  <2>5. ASSUME TimesAsked(s, h) = 1
        PROVE  /\ Chosen(s)
               /\ \E l, k : AskedAt(s, h, l, k) /\ \A x, y : AskedAt(s, h, x, y) => x = l /\ y = k
    <3>1. Chosen(s)
      BY <2>4, <2>5
    <3>2. PICK l \in 1 .. Len(Asked(s)) : Asked(s)[l] = h /\ \A j \in 1 .. Len(Asked(s)) : Asked(s)[j] = h => j = l
      BY <1>2, <2>3, <2>5, <3>1, TimesInIs
    <3>3. AskedAt(s, h, l, 1) /\ \A x, y : AskedAt(s, h, x, y) => x = l /\ y = 1
      BY <2>2, <3>2
    <3>4. QED  BY <3>1, <3>3
  <2>6. ASSUME Chosen(s), NEW l, NEW k, AskedAt(s, h, l, k) PROVE TimesAsked(s, h) # 0
    BY <1>2, <2>2, <2>3, <2>6, TimesInIs
  <2>7. QED  BY <2>5, <2>6
<1>5. CASE Given # <<>>
  <2>1. \A x : HostsFor(x) = Given
    BY <1>5 DEF HostsFor
  <2>2. \A l, k : AskedAt(s, h, l, k) <=> l \in 1 .. Len(Asked(s)) /\ k \in 1 .. Len(Given) /\ Given[k] = h
    BY <2>1 DEF AskedAt
  <2>3. Chosen(s) => TimesAsked(s, h) = Len(Asked(s)) * TimesIn(h, Given)
    BY <1>5, TimesAskedIs
  <2>4. ~Chosen(s) => TimesAsked(s, h) = 0
    BY TimesAskedIs
  <2>5. TimesIn(h, Given) \in Nat
    BY <1>2, TimesInIs
  <2>6. ASSUME TimesAsked(s, h) = 1
        PROVE  /\ Chosen(s)
               /\ \E l, k : AskedAt(s, h, l, k) /\ \A x, y : AskedAt(s, h, x, y) => x = l /\ y = k
    <3>1. Chosen(s)
      BY <2>4, <2>6
    <3>2. Len(Asked(s)) = 1 /\ TimesIn(h, Given) = 1
      BY <1>3, <2>3, <2>5, <2>6, <3>1, Products
    <3>3. PICK k \in 1 .. Len(Given) : Given[k] = h /\ \A j \in 1 .. Len(Given) : Given[j] = h => j = k
      BY <1>2, <3>2, TimesInIs
    <3>4. 1 .. Len(Asked(s)) = {1}
      BY <3>2
    <3>5. AskedAt(s, h, 1, k) /\ \A x, y : AskedAt(s, h, x, y) => x = 1 /\ y = k
      BY <2>2, <3>3, <3>4
    <3>6. QED  BY <3>1, <3>5
  <2>7. ASSUME Chosen(s), NEW l, NEW k, AskedAt(s, h, l, k) PROVE TimesAsked(s, h) # 0
    <3>1. TimesIn(h, Given) # 0
      BY <1>2, <2>2, <2>7, TimesInIs
    <3>2. Len(Asked(s)) # 0
      BY <1>3, <2>2, <2>7
    <3>3. QED  BY <1>3, <2>3, <2>5, <2>7, <3>1, <3>2, Products
  <2>8. QED  BY <2>6, <2>7
<1>6. QED  BY <1>4, <1>5

(* An entry of the plan is asked for; one that is asked for once is in it once. *)
LEMMA EntryAsked ==
  ASSUME InputInv, NEW p \in DOMAIN planned
  PROVE  TimesAsked(planned[p].scenario, planned[p].host) # 0
<1>1. PICK at : planned \in Seq(MeasuredType) /\ Origin(planned, at)
  BY PlanHasOrigin
<1> DEFINE s == AllScenarios[at[p][1]]
           l == at[p][2]
           k == at[p][3]
           h == HostsFor(Asked(s)[l])[k]
<1>2. p \in 1 .. Len(planned)
  BY <1>1
<1>3. Chosen(s) /\ AskedAt(s, h, l, k) /\ planned[p] = Measured(s, h, Iterations(s))
  BY <1>1, <1>2 DEF Origin, AskedAt
<1> HIDE DEF s, l, k, h
<1>4. planned[p].scenario = s /\ planned[p].host = h
  BY <1>3 DEF Measured
<1>5. QED  BY <1>3, <1>4, AskedTimes

(* What is asked for once is not filtered out as a copy. *)
LEMMA AskedOnceKept ==
  ASSUME InputInv, NEW s \in ToSet(AllScenarios), NEW h, TimesAsked(s, h) = 1
  PROVE  \E p \in Kept(planned) : planned[p].scenario = s /\ planned[p].host = h
<1>1. PICK at : planned \in Seq(MeasuredType) /\ Origin(planned, at)
  BY PlanHasOrigin
<1>2. DOMAIN planned = 1 .. Len(planned)
  BY <1>1
<1>3. Chosen(s)
  BY AskedTimes
<1>4. PICK l, k : AskedAt(s, h, l, k) /\ \A x, y : AskedAt(s, h, x, y) => x = l /\ y = k
  BY AskedTimes
<1>5. PICK i \in DOMAIN AllScenarios : s = AllScenarios[i]
  BY DEF ToSet
<1>6. PICK p \in 1 .. Len(planned) : at[p][1] = i /\ at[p][2] = l /\ at[p][3] = k
  <2>1. l \in 1 .. Len(Asked(AllScenarios[i])) /\ k \in 1 .. Len(HostsFor(Asked(AllScenarios[i])[l]))
    BY <1>4, <1>5 DEF AskedAt
  <2>2. Chosen(AllScenarios[i]) =>
          \A x \in 1 .. Len(Asked(AllScenarios[i])) : \A y \in 1 .. Len(HostsFor(Asked(AllScenarios[i])[x])) :
            \E p \in 1 .. Len(planned) : at[p][1] = i /\ at[p][2] = x /\ at[p][3] = y
    BY <1>1 DEF Origin
  <2>3. QED  BY <1>3, <1>5, <2>1, <2>2
<1>7. planned[p] = Measured(s, h, Iterations(s))
  BY <1>1, <1>4, <1>5, <1>6 DEF Origin, AskedAt
<1>8. planned[p].scenario = s /\ planned[p].host = h
  BY <1>7 DEF Measured
<1>9. ASSUME NEW q \in 1 .. Len(planned), planned[q] = planned[p] PROVE q = p
  <2> DEFINE t == AllScenarios[at[q][1]]
             x == at[q][2]
             y == at[q][3]
             g == HostsFor(Asked(t)[x])[y]
  <2>1. at[q][1] \in DOMAIN AllScenarios /\ AskedAt(t, g, x, y) /\ planned[q] = Measured(t, g, Iterations(t))
    BY <1>1 DEF Origin, AskedAt
  <2>2. planned[q].scenario = t /\ planned[q].host = g
    <3> HIDE DEF t, g
    <3> QED  BY <2>1 DEF Measured
  <2>3. t = s /\ g = h
    BY <1>8, <1>9, <2>2
  <2>4. at[q][1] = i
    BY <1>5, <2>1, <2>3, ScenarioNames
  <2>5. x = l /\ y = k
    <3> HIDE DEF t, g, x, y
    <3> QED  BY <1>4, <2>1, <2>3
  <2>6. at[q][1] = at[p][1] /\ at[q][2] = at[p][2] /\ at[q][3] = at[p][3]
    BY <1>6, <2>4, <2>5
  <2> HIDE DEF t, x, y, g
  <2>7. \A a, b \in 1 .. Len(planned) :
          at[a][1] = at[b][1] /\ at[a][2] = at[b][2] /\ at[a][3] = at[b][3] => a = b
    BY <1>1 DEF Origin
  <2>8. QED  BY <2>6, <2>7
<1>10. p \in Kept(planned)
  BY <1>2, <1>9 DEF Kept
<1>11. QED  BY <1>8, <1>10

(* What of an entry is seen in its job. *)
LEMMA JobFields ==
  ASSUME NEW m
  PROVE  Job(m).kind = m.scenario.kind /\ Job(m).host = m.host /\ Job(m).scenario = m.scenario.name
BY DEF Job

(* The jobs of a scenario on a host. *)
JobsFor(s, h) ==
  {job \in Agents \X UNION {JobsOf(a) : a \in Agents} :
     /\ job[2] \in JobsOf(job[1])
     /\ job[2].scenario = s.name /\ job[2].host = h}

(* Such a job comes from an entry that is kept, and the agent is the entry's. *)
LEMMA JobsForKept ==
  ASSUME InputInv, PlanInv, step \notin {"parse", "failed"}, NEW s \in ToSet(AllScenarios), NEW h,
         NEW job \in JobsFor(s, h)
  PROVE  \E i \in Kept(planned) :
           /\ planned[i].scenario = s /\ planned[i].host = h
           /\ job = <<Agent(planned[i]), Job(planned[i])>>
<1>1. PICK a \in Agents, j \in UNION {JobsOf(b) : b \in Agents} :
        job = <<a, j>> /\ j \in JobsOf(a) /\ j.scenario = s.name /\ j.host = h
  BY DEF JobsFor
<1>2. PICK i \in Kept(planned) : Agent(planned[i]) = a /\ j = Job(planned[i])
  BY <1>1, JobsPlanned
<1>3. planned[i] \in MeasuredType
  BY <1>2, PlanDetermined DEF Kept
<1>4. planned[i].scenario.name = s.name /\ planned[i].host = h /\ planned[i].scenario \in ToSet(AllScenarios)
  BY <1>1, <1>2, <1>3, JobFields DEF MeasuredType
<1>5. QED  BY <1>1, <1>2, <1>4, NamesOfScenarios

(* Nothing is measured by two agents or under two names. *)
LEMMA AtMostOneJob ==
  ASSUME InputInv, PlanInv, step \notin {"parse", "failed"}, NEW s \in ToSet(AllScenarios), NEW h
  PROVE  Cardinality(JobsFor(s, h)) <= 1
<1>1. ASSUME NEW x \in JobsFor(s, h), NEW y \in JobsFor(s, h) PROVE x = y
  <2>1. PICK i \in Kept(planned) : /\ planned[i].scenario = s /\ planned[i].host = h
                                   /\ x = <<Agent(planned[i]), Job(planned[i])>>
    BY JobsForKept
  <2>2. PICK k \in Kept(planned) : /\ planned[k].scenario = s /\ planned[k].host = h
                                   /\ y = <<Agent(planned[k]), Job(planned[k])>>
    BY JobsForKept
  <2>3. i = k
    BY <2>1, <2>2, PlanDetermined, OneKept
  <2>4. QED  BY <2>1, <2>2, <2>3
<1>2. CASE JobsFor(s, h) = {}
  <2>1. Cardinality(JobsFor(s, h)) = 0
    BY <1>2, FS_EmptySet
  <2>2. QED  BY <2>1
<1>3. CASE JobsFor(s, h) # {}
  <2>1. PICK x : JobsFor(s, h) = {x}
    BY <1>1, <1>3
  <2>2. Cardinality(JobsFor(s, h)) = 1
    BY <2>1, FS_Singleton
  <2>3. QED  BY <2>2
<1>4. QED  BY <1>2, <1>3

(* What is asked for once has a job of the agent that has to run it. *)
LEMMA AskedOnceIsJob ==
  ASSUME InputInv, PlanInv, step \notin {"parse", "failed"}, NEW s \in ToSet(AllScenarios), NEW h,
         TimesAsked(s, h) = 1
  PROVE  \E j \in JobsOf(IF baselining THEN s.agent ELSE "any") :
           <<j.scenario, j.host, j.kind>> = <<s.name, h, s.kind>>
<1>1. PICK p \in Kept(planned) : planned[p].scenario = s /\ planned[p].host = h
  BY AskedOnceKept
<1>2. planned[p] \in MeasuredType
  BY <1>1, PlanDetermined DEF Kept
<1>3. Agent(planned[p]) = (IF baselining THEN s.agent ELSE "any") /\ Agent(planned[p]) \in Agents
  BY <1>1, <1>2, AgentKnown DEF Agent
<1>4. Job(planned[p]) \in JobsOf(Agent(planned[p]))
  BY <1>1, <1>3, JobsPlanned
<1>5. QED  BY <1>1, <1>3, <1>4, JobFields

(* TSPERF_PROCESS_KINDS are the kinds of the jobs. *)
LEMMA KindsOfJobs ==
  ASSUME InputInv, PlanInv, step \notin {"parse", "failed"}
  PROVE  processKinds = {j.kind : j \in UNION {JobsOf(a) : a \in Agents}}
<1>1. processKinds = {planned[i].scenario.kind : i \in Kept(planned)}
  BY DEF PlanInv
<1>2. ASSUME NEW i \in Kept(planned)
      PROVE  \E j \in UNION {JobsOf(a) : a \in Agents} : j.kind = planned[i].scenario.kind
  <2>1. Agent(planned[i]) \in Agents
    BY PlanDetermined, AgentKnown DEF Kept
  <2>2. Job(planned[i]) \in JobsOf(Agent(planned[i]))
    BY <2>1, JobsPlanned
  <2>3. QED  BY <2>1, <2>2, JobFields
<1>3. ASSUME NEW j \in UNION {JobsOf(a) : a \in Agents}
      PROVE  \E i \in Kept(planned) : j.kind = planned[i].scenario.kind
  <2>1. PICK a \in Agents : j \in JobsOf(a)
    OBVIOUS
  <2>2. PICK i \in Kept(planned) : j = Job(planned[i])
    BY <2>1, JobsPlanned
  <2>3. QED  BY <2>2, JobFields
<1>4. QED  BY <1>1, <1>2, <1>3

(* The plan is what is asked for, in every state in which Setup has succeeded. *)
LEMMA PlanIsAsked == InputInv /\ PlanInv => PlannedAsAsked
<1> SUFFICES ASSUME InputInv, PlanInv, step = "succeeded" PROVE PlannedAsAsked
  BY DEF PlannedAsAsked
<1>1. step \notin {"parse", "failed"}
  OBVIOUS
<1>2. ASSUME NEW s \in ToSet(AllScenarios), NEW h \in KnownHosts
      PROVE  /\ Cardinality(JobsFor(s, h)) <= 1
             /\ TimesAsked(s, h) = 0 => JobsFor(s, h) = {}
             /\ TimesAsked(s, h) = 1 => \E j \in JobsOf(IF baselining THEN s.agent ELSE "any") :
                  <<j.scenario, j.host, j.kind>> = <<s.name, h, s.kind>>
  <2>1. ASSUME NEW job \in JobsFor(s, h) PROVE TimesAsked(s, h) # 0
    <3>1. PICK i \in Kept(planned) : planned[i].scenario = s /\ planned[i].host = h
      BY <1>1, JobsForKept
    <3>2. i \in DOMAIN planned
      BY DEF Kept
    <3>3. QED  BY <3>1, <3>2, EntryAsked
  <2>2. QED  BY <1>1, <2>1, AtMostOneJob, AskedOnceIsJob
<1>3. processKinds = {j.kind : j \in UNION {JobsOf(a) : a \in Agents}}
  BY <1>1, KindsOfJobs
<1>4. QED  BY <1>2, <1>3 DEF PlannedAsAsked, JobsFor

(* setupPipeline gives each agent what the input asks for: a scenario that is asked for *)
(* once on a host is one job, of its own agent on the baseline machines; nothing is a   *)
(* job that is not asked for, or one of two agents or under two names; and the kinds    *)
(* whose results are merged are those that have jobs.  It holds for any hosts, any      *)
(* number of arguments and all presets, although copies are filtered out in a worker    *)
(* that sees the entries one after the other and a later job replaces one of its name.  *)
THEOREM PlanIsWhatIsAsked == SetupSpec => []PlannedAsAsked
<1>1. SetupInv /\ PlanInv => PlannedAsAsked
  BY PlanIsAsked DEF SetupInv
<1>2. SetupInit => SetupInv /\ PlanInv
  BY SetupInvInit, PlanInvInit
<1>3. SetupInv /\ PlanInv /\ [SetupNext]_setupVars => (SetupInv /\ PlanInv)'
  BY SetupInvNext, PlanInvNext DEF SetupInv
<1>4. QED  BY <1>1, <1>2, <1>3, PTL DEF SetupSpec

-----------------------------------------------------------------------------
(* Setup as the first job of the pipeline. *)

(* Before Setup has ended, the pipeline has not begun. *)
LEMMA SetupInitRefines == SetupInit => Pipeline!Init
<1> SUFFICES ASSUME SetupInit PROVE Pipeline!Init
  OBVIOUS
<1>1. step = "parse" /\ ref \in {"pull", "main", "other"}
  BY DEF SetupInit
<1>2. isPr \in BOOLEAN /\ shouldUpload \in BOOLEAN /\ ~(isPr /\ shouldUpload)
  BY <1>1, InputInit DEF isPr, shouldUpload, InputInv
<1>3. Succeeded = FALSE
  BY <1>1 DEF Succeeded
<1>4. QED  BY <1>1, <1>2, <1>3 DEF Pipeline!Init, Pipeline!Reporter, Pipeline!Version

(* The matrices, as sets of jobs. *)
LEMMA JobsPossible ==
  ASSUME NEW m \in MeasuredType
  PROVE  Job(m) \in PossibleJobs
<1>1. m = Measured(m.scenario, m.host, m.iterations)
  BY DEF Measured, MeasuredType
<1>2. m.scenario \in ToSet(AllScenarios) /\ m.host \in KnownHosts /\ m.iterations \in {DefaultIterations, DefaultIterations * 2}
  BY DEF MeasuredType
<1>3. QED  BY <1>1, <1>2 DEF PossibleJobs

(* No job is in the matrix of two agents. *)
LEMMA MatricesDisjoint ==
  ASSUME InputInv, PlanInv, step \notin {"parse", "failed"}
  PROVE  /\ \A a \in Agents : JobsOf(a) \subseteq PossibleJobs
         /\ \A a, b \in Agents : a # b => JobsOf(a) \cap JobsOf(b) = {}
<1>1. \A i \in Kept(planned) : planned[i] \in MeasuredType
  BY PlanDetermined DEF Kept
<1>2. ASSUME NEW a \in Agents, NEW j \in JobsOf(a)
      PROVE  \E i \in Kept(planned) : Agent(planned[i]) = a /\ j = Job(planned[i])
  BY JobsPlanned
<1>3. ASSUME NEW a \in Agents, NEW j \in JobsOf(a) PROVE j \in PossibleJobs
  BY <1>1, <1>2, JobsPossible
<1>4. ASSUME NEW a \in Agents, NEW b \in Agents, NEW j \in JobsOf(a), j \in JobsOf(b) PROVE a = b
  <2>1. PICK i \in Kept(planned) : Agent(planned[i]) = a /\ j = Job(planned[i])
    BY <1>2
  <2>2. PICK k \in Kept(planned) : Agent(planned[k]) = b /\ j = Job(planned[k])
    BY <1>2, <1>4
  <2>3. planned[i].scenario.name = planned[k].scenario.name
    <3>1. j.scenario = planned[i].scenario.name
      BY <2>1, JobFields
    <3>2. j.scenario = planned[k].scenario.name
      BY <2>2, JobFields
    <3>3. QED  BY <3>1, <3>2
  <2>4. planned[i].scenario = planned[k].scenario
    BY <1>1, <2>3, NamesOfScenarios DEF MeasuredType
  <2>5. QED  BY <2>1, <2>2, <2>4 DEF Agent
<1>5. QED  BY <1>3, <1>4

(* Without a range of commits just pull requests are compared. *)
LEMMA ComparisonAsked ==
  ASSUME InputInv
  PROVE  /\ parameters.isComparison \in BOOLEAN /\ parameters.isCustomCommitRange \in BOOLEAN
         /\ ~parameters.isCustomCommitRange => parameters.isComparison = isPr
BY DEF InputInv, ParametersType

(* The last step publishes the plan. *)
LEMMA PublishRefines ==
  ASSUME SetupInv, PlanInv, BuildStep, step = "publish"
  PROVE  Pipeline!SetupSucceeds
<1>1. /\ step' = "succeeded" /\ UNCHANGED <<ref, baselining, implementation, parts, parameters, matrix>>
  BY StepsInOrder DEF BuildStep, plan
<1>2. InputInv /\ step \notin {"parse", "failed"}
  BY DEF SetupInv
<1>3. /\ isPr' = isPr /\ shouldUpload' = shouldUpload /\ Succeeded' = TRUE /\ isPr \in BOOLEAN
  BY <1>1 DEF isPr, shouldUpload, Succeeded
<1>4. \A a : JobsOf(a)' = JobsOf(a)
  BY <1>1 DEF JobsOf
<1>5. [a \in Agents |-> JobsOf(a)] \in [Agents -> SUBSET PossibleJobs]
  BY <1>2, MatricesDisjoint
<1>6. \A a, b \in Agents : a # b => JobsOf(a) \cap JobsOf(b) = {}
  BY <1>2, MatricesDisjoint
<1>7. /\ parameters'.isCustomCommitRange \in BOOLEAN
      /\ parameters'.isComparison \in IF parameters'.isCustomCommitRange THEN BOOLEAN ELSE {isPr}
  BY <1>1, <1>2, ComparisonAsked
<1>8. [a \in Agents |-> IF Succeeded THEN JobsOf(a) ELSE {}]' = [a \in Agents |-> JobsOf(a)]
  BY <1>3, <1>4
<1> HIDE DEF JobsOf
<1>9. QED  BY <1>1, <1>3, <1>5, <1>6, <1>7, <1>8 DEF Pipeline!SetupSucceeds, Pipeline!legVars, Pipeline!reportVars

(* A step that fails leaves the pipeline without a plan. *)
LEMMA FailingRefines ==
  ASSUME step \notin {"succeeded", "failed"}, step' = "failed", UNCHANGED <<ref, baselining, implementation, parts, parameters>>
  PROVE  Pipeline!SetupFails
<1>1. isPr' = isPr /\ shouldUpload' = shouldUpload /\ Succeeded = FALSE /\ Succeeded' = FALSE
  BY DEF isPr, shouldUpload, Succeeded
<1>2. QED  BY <1>1 DEF Pipeline!SetupFails, Pipeline!legVars, Pipeline!reportVars

(* The steps before the last one are not seen by the pipeline. *)
LEMMA OthersStutter ==
  ASSUME step \notin {"succeeded", "failed"}, step' \notin {"succeeded", "failed"}, UNCHANGED <<ref, baselining>>
  PROVE  UNCHANGED Pipeline!vars
<1>1. isPr' = isPr /\ shouldUpload' = shouldUpload /\ Succeeded = FALSE /\ Succeeded' = FALSE
  BY DEF isPr, shouldUpload, Succeeded
<1>2. QED  BY <1>1 DEF Pipeline!vars, Pipeline!planVars, Pipeline!legVars, Pipeline!reportVars

(* Nor is a step that changes nothing. *)
LEMMA NothingStutters == UNCHANGED setupVars => UNCHANGED Pipeline!vars
<1> SUFFICES ASSUME UNCHANGED setupVars PROVE UNCHANGED Pipeline!vars
  OBVIOUS
<1>1. UNCHANGED <<ref, baselining, parameters, step, matrix>>
  BY DEF setupVars, plan
<1>2. /\ isPr' = isPr /\ shouldUpload' = shouldUpload /\ Succeeded' = Succeeded /\ \A a : JobsOf(a)' = JobsOf(a)
  BY <1>1 DEF isPr, shouldUpload, Succeeded, JobsOf
<1>3. QED  BY <1>1, <1>2 DEF Pipeline!vars, Pipeline!planVars, Pipeline!legVars, Pipeline!reportVars

(* Every step is one of the pipeline's, or none. *)
LEMMA SetupNextRefines ==
  SetupInv /\ PlanInv /\ [SetupNext]_setupVars
    => [Pipeline!SetupSucceeds \/ Pipeline!SetupFails]_(Pipeline!vars)
<1> SUFFICES ASSUME SetupInv, PlanInv, [SetupNext]_setupVars
    PROVE Pipeline!SetupSucceeds \/ Pipeline!SetupFails \/ UNCHANGED Pipeline!vars
  OBVIOUS
<1>1. CASE ReadPart
  BY <1>1, OthersStutter DEF ReadPart
<1>2. CASE ReadFails \/ PlanFails
  BY <1>2, FailingRefines DEF ReadFails, PlanFails
<1>3. CASE Plan
  BY <1>3, OthersStutter DEF Plan
<1>4. CASE BuildStep
  <2>1. CASE step = "publish"
    BY <1>4, <2>1, PublishRefines
  <2>2. CASE step # "publish"
    <3>1. step \notin {"succeeded", "failed"} /\ step' \notin {"succeeded", "failed"} /\ UNCHANGED <<ref, baselining>>
      BY <1>4, <2>2, StepsInOrder DEF BuildStep
    <3>2. QED  BY <3>1, OthersStutter
  <2>3. QED  BY <2>1, <2>2
<1>5. CASE BuildFails
  <2>1. step \notin {"succeeded", "failed"}
    BY <1>5, StepsInOrder DEF BuildFails
  <2>2. QED  BY <1>5, <2>1, FailingRefines DEF BuildFails
<1>6. CASE Ended \/ UNCHANGED setupVars
  BY <1>6, NothingStutters DEF Ended
<1>7. QED  BY <1>1, <1>2, <1>3, <1>4, <1>5, <1>6 DEF SetupNext

(* setupPipeline and the build steps are what BenchmarkPipeline says of the job Setup: *)
(* it succeeds with disjoint matrices of possible jobs, and with a comparison for a     *)
(* pull request unless a range of commits is asked for, or it fails; and nothing of it  *)
(* is seen by the other jobs before.                                                    *)
THEOREM SetupRefines == SetupSpec => ImplementsSetup
<1>1. SetupInit => SetupInv /\ PlanInv
  BY SetupInvInit, PlanInvInit
<1>2. SetupInv /\ PlanInv /\ [SetupNext]_setupVars => (SetupInv /\ PlanInv)'
  BY SetupInvNext, PlanInvNext DEF SetupInv
<1>3. QED  BY <1>1, <1>2, SetupInitRefines, SetupNextRefines, PTL DEF SetupSpec, ImplementsSetup
=============================================================================
