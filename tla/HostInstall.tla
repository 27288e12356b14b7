----------------------------- MODULE HostInstall ------------------------------
(***************************************************************************)
(* The commands "host install", "host uninstall" and "host configure", on   *)
(* the directories in which hosts are installed.  A host is installed if    *)
(* its directory has a readable host.json.                                  *)
(*                                                                          *)
(* One process runs at a time.  It may be killed anywhere, or fail in any   *)
(* await, and the next command finds what it has left on the disk.  A file  *)
(* stream that fails in pipeAsync has nobody who listens to it, which is    *)
(* like being killed.                                                       *)
(***************************************************************************)
EXTENDS Naturals

CONSTANTS
    Hosts,          \* the hosts one can ask for
    KindOf,         \* of each host: which installer it belongs to
    OtherArch,      \* hosts of Node for an architecture that is neither x86 nor x64
    Pairs,          \* values of --config: <<key, value>>
    MaxCommands     \* bound on the number of commands

Keys == {"default", "disabled"}

ASSUME HostAssumption ==
    /\ KindOf \in [Hosts -> {"node", "bun", "vscode"}]
    /\ OtherArch \subseteq {h \in Hosts : KindOf[h] = "node"}
    /\ Pairs \subseteq (Keys \cup {"other"}) \X BOOLEAN
    /\ MaxCommands \in Nat

VARIABLES
    platform,   \* os.platform()
    dir,        \* of each host: what is in its directory besides host.json
    json,       \* host.json
    flags,      \* the keys that are true in it
    cmd,        \* the command that runs, or the last one
    pc,         \* what its process awaits
    cur,        \* the host at hand
    todo,       \* hosts that it has still to see to
    removing,   \* directories that are being removed
    reported,   \* hosts for which an error was written
    outcome,    \* how it ended
    damaged,    \* removal was begun and neither completed nor made good
    count       \* commands started

diskVars == <<dir, json, flags, damaged>>
progVars == <<cmd, pc, cur, todo, removing, reported, outcome>>
vars == <<platform, diskVars, progVars, count>>

Install(hs, f, p) == [op |-> "install", hosts |-> hs, force |-> f, pair |-> p, supported |-> TRUE]
Uninstall(hs, s) ==
    [op |-> "uninstall", hosts |-> hs, force |-> FALSE, pair |-> <<"other", TRUE>>, supported |-> s]
Configure(hs, p) ==
    [op |-> "configure", hosts |-> hs, force |-> FALSE, pair |-> p, supported |-> TRUE]

Of(kind) == {h \in Hosts : KindOf[h] = kind}

Init ==
    /\ platform \in {"linux", "win32"}
    /\ dir = [h \in Hosts |-> "none"]
    /\ json = [h \in Hosts |-> "none"]
    /\ flags = [h \in Hosts |-> {}]
    /\ damaged = {}
    /\ cmd = Uninstall({}, TRUE) /\ pc = "idle" /\ cur \in Hosts
    /\ todo = {} /\ removing = {} /\ reported = {} /\ outcome = "none"
    /\ count = 0

-----------------------------------------------------------------------------
(* Host.getAvailableHosts, of those with a configFile: whatever cannot be parsed *)
(* is passed over.                                                               *)
Listed == {h \in Hosts : json[h] = "ok"}

(* Host.getDefaultHosts({ installed: true }) *)
DefaultHosts ==
    LET enabled == {h \in Listed : "disabled" \notin flags[h]}
        default == {h \in enabled : "default" \in flags[h]}
    IN  IF default # {} THEN default ELSE enabled

(* Host.findHosts: without patterns it takes the defaults. *)
FindHosts(hs, patterns) == IF patterns THEN hs \cap Listed ELSE DefaultHosts

(* Mutant: any key will do. *)
WithAnyPair(f, p) == IF p[2] THEN f \cup {p[1]} ELSE f \ {p[1]}

(* Host.withPairs: other keys are ignored. *)
WithPair(f, p) ==
    IF p[1] = "other" THEN f ELSE IF p[2] THEN f \cup {p[1]} ELSE f \ {p[1]}

(* Begin command c. *)
Begin(c, at, hs, rm) ==
    /\ pc = "idle" /\ count < MaxCommands
    /\ cmd' = c /\ pc' = at
    /\ todo' = hs /\ removing' = rm
    /\ reported' = {} /\ outcome' = "none"
    /\ count' = count + 1
    /\ UNCHANGED <<platform, diskVars, cur>>

(* The command ends; the exception of a step that fails is not caught. *)
Finish(o) ==
    /\ pc' = "idle" /\ outcome' = o
    /\ todo' = {} /\ removing' = {}

Throw == Finish("failed") /\ UNCHANGED reported

-----------------------------------------------------------------------------
(* host install *)
StartInstall ==
    \E hs \in SUBSET Hosts \ {{}}, force \in BOOLEAN, p \in Pairs :
        Begin(Install(hs, force, p), "index", hs, {})

(* The bun and vscode installers refuse to work elsewhere. *)
Refused == IF platform = "linux" THEN {} ELSE Of("bun") \cup Of("vscode")

(* Nothing is installed for these and nothing is said: the vscode installer never  *)
(* has a version to install; and a release of Node may match by its file for, say, *)
(* arm64, although getSupportedPlatformsAndArchitectures leaves such files out.    *)
Dropped == Of("vscode") \cup OtherArch

(* The index of Node's releases, of which some hosts match none; these are         *)
(* reported.  It is fetched whatever hosts were asked for.                         *)
ReadIndex ==
    /\ pc = "index"
    /\ \E unknown \in SUBSET (cmd.hosts \cap Of("node")) :
        /\ reported' = unknown
        /\ todo' = cmd.hosts \ (unknown \cup Refused \cup Dropped)
    /\ pc' = "check"
    /\ UNCHANGED <<platform, diskVars, cmd, cur, removing, outcome, count>>

(* The installers run one after the other. *)
Turn(h) == h \in todo /\ (KindOf[h] = "bun" => todo \cap Of("node") = {})

(* Mutant: it is the directory that is looked for. *)
ExistsDir(h) == dir[h] # "none"

(* fs.existsSync(file) *)
Exists(h) == json[h] # "none"

(* Mutant: force does not clean. *)
CheckNoClean(h) ==
    /\ pc = "check" /\ Turn(h)
    /\ IF Exists(h) /\ ~cmd.force
       THEN todo' = todo \ {h} /\ UNCHANGED <<pc, cur, removing>>
       ELSE pc' = "fetch" /\ cur' = h /\ UNCHANGED <<todo, removing>>
    /\ UNCHANGED <<platform, diskVars, cmd, reported, outcome, count>>

Check(h) ==
    /\ pc = "check" /\ Turn(h)
    /\ \/ /\ Exists(h) /\ ~cmd.force
          /\ todo' = todo \ {h}
          /\ UNCHANGED <<pc, cur, removing>>
       \/ /\ Exists(h) /\ cmd.force
          /\ pc' = "rm" /\ cur' = h /\ removing' = {h}
          /\ UNCHANGED todo
       \/ /\ ~Exists(h)
          /\ pc' = "fetch" /\ cur' = h
          /\ UNCHANGED <<todo, removing>>
    /\ UNCHANGED <<platform, diskVars, cmd, reported, outcome, count>>

Download ==
    /\ pc = "fetch"
    /\ pc' = "unpack"
    /\ UNCHANGED <<platform, diskVars, cmd, cur, todo, removing, reported, outcome, count>>

(* Mutant: tar asks, too. *)
AsksAlways(h) == dir[h] # "none"

(* unzip without -o asks whether to replace a file, and nobody answers. *)
Asks(h) == KindOf[h] = "bun" /\ dir[h] # "none"

(* Of a directory with some of the files, those in the way may be missing. *)
Unpack ==
    /\ pc = "unpack"
    /\ \/ Asks(cur) /\ pc' = "asks" /\ UNCHANGED dir
       \/ /\ ~Asks(cur) \/ dir[cur] = "part"
          /\ pc' = "fill"
          /\ dir' = [dir EXCEPT ![cur] = "part"]
    /\ UNCHANGED <<platform, json, flags, damaged, cmd, cur, todo, removing, reported, outcome, count>>

(* The archive is unpacked; or node.exe is copied, and npm installed beside it. *)
Unpacked ==
    /\ pc = "fill"
    /\ dir' = [dir EXCEPT ![cur] = "whole"]
    /\ damaged' = damaged \ {cur}
    /\ pc' = "save"
    /\ UNCHANGED <<platform, json, flags, cmd, cur, todo, removing, reported, outcome, count>>

InstallEnds ==
    /\ pc = "check" /\ cmd.op = "install" /\ todo = {}
    /\ Finish("ok")
    /\ reported' = reported \cup (cmd.hosts \cap Refused)
    /\ UNCHANGED <<platform, diskVars, cmd, cur, count>>

-----------------------------------------------------------------------------
(* Host.saveAsync: the file is truncated, then written. *)
SaveOpens ==
    /\ pc = "save"
    /\ json' = [json EXCEPT ![cur] = "torn"]
    /\ pc' = "write"
    /\ UNCHANGED <<platform, dir, flags, damaged, cmd, cur, todo, removing, reported, outcome, count>>

(* Mutant: configure writes the pair alone. *)
SavedForgets ==
    /\ pc = "write"
    /\ json' = [json EXCEPT ![cur] = "ok"]
    /\ flags' = [flags EXCEPT ![cur] = WithPair({}, cmd.pair)]
    /\ pc' = "check"
    /\ todo' = todo \ {cur}
    /\ UNCHANGED <<platform, dir, damaged, cmd, cur, removing, reported, outcome, count>>

Saved ==
    /\ pc = "write"
    /\ json' = [json EXCEPT ![cur] = "ok"]
    /\ flags' = [flags EXCEPT ![cur] =
                    WithPair(IF cmd.op = "install" THEN {} ELSE flags[cur], cmd.pair)]
    /\ pc' = IF cmd.op = "install" THEN "check" ELSE "configure"
    /\ todo' = todo \ {cur}
    /\ UNCHANGED <<platform, dir, damaged, cmd, cur, removing, reported, outcome, count>>

-----------------------------------------------------------------------------
(* host configure *)
StartConfigure ==
    \E hs \in SUBSET Hosts \ {{}}, p \in Pairs :
        Begin(Configure(hs, p), "configure", FindHosts(hs, TRUE), {})

(* Host.with returns the host itself.  A key that is not true is unset in host.json *)
(* and not false, so that to set it to false makes another host.                    *)
SameHost(f, p) == p[1] = "other" \/ (p[2] /\ p[1] \in f)

ConfigureHost(h) ==
    /\ pc = "configure" /\ h \in todo
    /\ \/ /\ SameHost(flags[h], cmd.pair)
          /\ todo' = todo \ {h} /\ UNCHANGED <<pc, cur>>
       \/ /\ ~SameHost(flags[h], cmd.pair)
          /\ pc' = "save" /\ cur' = h /\ UNCHANGED todo
    /\ UNCHANGED <<platform, diskVars, cmd, removing, reported, outcome, count>>

ConfigureEnds ==
    /\ pc = "configure" /\ todo = {}
    /\ Finish("ok")
    /\ UNCHANGED <<platform, diskVars, cmd, cur, reported, count>>

-----------------------------------------------------------------------------
(* host uninstall: the patterns with an unknown name are reported and left out; *)
(* supported says that one is left.                                             *)
StartUninstall ==
    \E hs \in SUBSET Hosts, supported \in BOOLEAN :
        /\ ~supported => hs = {}
        /\ Begin(Uninstall(hs, supported), "rm", {}, FindHosts(hs, supported))

(* fs.promises.rm, recursively, in any order. *)
RemoveContents(h) ==
    /\ h \in removing /\ dir[h] = "whole"
    /\ dir' = [dir EXCEPT ![h] = "part"]
    /\ UNCHANGED <<platform, json, flags, damaged, progVars, count>>

RemoveJson(h) ==
    /\ h \in removing /\ json[h] # "none"
    /\ json' = [json EXCEPT ![h] = "none"]
    /\ flags' = [flags EXCEPT ![h] = {}]
    /\ UNCHANGED <<platform, dir, damaged, progVars, count>>

Removed(h) ==
    /\ h \in removing /\ json[h] = "none"
    /\ dir' = [dir EXCEPT ![h] = "none"]
    /\ damaged' = damaged \ {h}
    /\ removing' = removing \ {h}
    /\ UNCHANGED <<platform, json, flags, cmd, pc, cur, todo, reported, outcome, count>>

Spoiled == {h \in removing : dir[h] # "whole"}

(* Only uninstall catches the error, host by host. *)
RemoveFails(h) ==
    /\ h \in removing
    /\ damaged' = damaged \cup (Spoiled \cap {h})
    /\ \/ /\ cmd.op = "uninstall"
          /\ reported' = reported \cup {h}
          /\ removing' = removing \ {h}
          /\ UNCHANGED <<pc, todo, outcome>>
       \/ cmd.op = "install" /\ Throw
    /\ UNCHANGED <<platform, dir, json, flags, cmd, cur, count>>

AllRemoved ==
    /\ pc = "rm" /\ removing = {}
    /\ \/ cmd.op = "install" /\ pc' = "fetch" /\ UNCHANGED <<todo, removing, outcome>>
       \/ cmd.op = "uninstall" /\ Finish("ok")
    /\ UNCHANGED <<platform, diskVars, cmd, cur, reported, count>>

-----------------------------------------------------------------------------
(* An await is rejected. *)
Fails ==
    /\ pc \in {"index", "fetch", "unpack", "fill", "save", "write"}
    /\ Throw
    /\ UNCHANGED <<platform, diskVars, cmd, cur, count>>

Killed ==
    /\ pc # "idle"
    /\ Finish("killed")
    /\ damaged' = damaged \cup Spoiled
    /\ UNCHANGED <<platform, dir, json, flags, cmd, cur, reported, count>>

Step ==
    \/ ReadIndex \/ Download \/ Unpack \/ Unpacked \/ InstallEnds
    \/ SaveOpens \/ Saved \/ ConfigureEnds \/ AllRemoved
    \/ \E h \in Hosts : Check(h) \/ ConfigureHost(h)
    \/ \E h \in Hosts : RemoveContents(h) \/ RemoveJson(h) \/ Removed(h)

Over == pc = "idle" /\ count = MaxCommands /\ UNCHANGED vars

Next ==
    \/ StartInstall \/ StartConfigure \/ StartUninstall
    \/ Step
    \/ \E h \in Hosts : RemoveFails(h)
    \/ Fails \/ Killed \/ Over

Spec == Init /\ [][Next]_vars
FairSpec == Spec /\ WF_vars(Step)

-----------------------------------------------------------------------------
Commands ==
    [op : {"install", "uninstall", "configure"}, hosts : SUBSET Hosts, force : BOOLEAN,
     pair : Pairs \cup {<<"other", TRUE>>}, supported : BOOLEAN]

TypeOK ==
    /\ platform \in {"linux", "win32"}
    /\ dir \in [Hosts -> {"none", "part", "whole"}]
    /\ json \in [Hosts -> {"none", "torn", "ok"}]
    /\ flags \in [Hosts -> SUBSET Keys]
    /\ cmd \in Commands
    /\ pc \in {"idle", "index", "check", "rm", "fetch", "unpack", "asks", "fill", "save",
               "write", "configure"}
    /\ cur \in Hosts
    /\ todo \subseteq Hosts /\ removing \subseteq Hosts
    /\ reported \subseteq Hosts /\ damaged \subseteq Hosts
    /\ outcome \in {"none", "ok", "failed", "killed"}
    /\ count \in 0 .. MaxCommands

(* A host that is listed has all its files, through failures, retries and            *)
(* interruptions of any command; only a removal that was begun and not completed can *)
(* leave a host that is listed and cannot run.                                       *)
ListedIsComplete ==
    \A h \in Listed \ (damaged \cup removing) : dir[h] = "whole"

Usable(h) == h \in Listed /\ dir[h] = "whole"

(* If host install ends well, each host that was asked for and was not reported can  *)
(* be used, whatever earlier commands have left behind.  There are four exceptions:  *)
(* what an interrupted removal or an interrupted write of host.json has left needs   *)
(* --force, and the hosts of VS Code and those of Node for other architectures than  *)
(* x86 and x64 are passed over in silence.  If host uninstall ends well, each host   *)
(* that it was asked to remove is gone or reported.                                  *)
Installed(h) ==
    Usable(h) \/ (~cmd.force /\ (json[h] = "torn" \/ h \in damaged)) \/ h \in Dropped

DoneOrReported ==
    outcome = "ok" =>
        /\ cmd.op = "install" => \A h \in cmd.hosts \ reported : Installed(h)
        /\ cmd.op = "uninstall" => cmd.hosts \cap Listed \subseteq reported

(* Setting one key of a host leaves the other as it was, and no command touches the  *)
(* files or the settings of a host that it was not asked for.  The exception is an   *)
(* uninstall of nothing but unknown names: it removes the default hosts; but even    *)
(* then a host that is disabled is left alone.                                       *)
OthersUntouched ==
    [][\A h \in Hosts :
        /\ h \notin cmd.hosts /\ (cmd.supported \/ "disabled" \in flags[h]) =>
            UNCHANGED <<dir[h], json[h], flags[h]>>
        /\ cmd.op = "configure" =>
            \A k \in Keys \ {cmd.pair[1]} : k \in flags'[h] <=> k \in flags[h]]_vars

(* Each command ends, unless unzip asks a question. *)
EventuallyEnds ==
    pc # "idle" ~> (pc = "idle" \/ (pc = "asks" /\ KindOf[cur] = "bun"))
=============================================================================
