---------------------------- MODULE ServerSession -----------------------------
(***************************************************************************)
(* A server client: the child process of measure.ts that starts a language *)
(* server, sends it the commands of a scenario one at a time, prints how   *)
(* long each took, and shuts the server down.  measuretsserver.ts and      *)
(* measurelsp.ts are two programs of one shape; options.client says which  *)
(* one runs.  MeasureRun reads the lines printed here.                     *)
(*                                                                         *)
(* An action is the code between two awaits, or a step of the server.  The *)
(* libraries that carry the requests are external: when the server is dead *)
(* a request may be rejected, or its promise may never be settled.         *)
(***************************************************************************)
EXTENDS Naturals, Sequences

CONSTANTS
    Configs,    \* the values of tsserverConfig.commands
    Files       \* number of files that updateOpen opens and geterr checks

Known == {"updateOpen", "geterr", "references", "navto", "completionInfo"}
Canonical == <<"updateOpen", "geterr", "references", "navto", "completionInfo">>

ASSUME SessionAssumption ==
    /\ Configs \subseteq Seq(Known \cup {"other"})
    /\ Files \in Nat \ {0}

VARIABLES
    options,    \* which client, its options, the commands of the scenario
    pc,         \* what the client awaits
    i,          \* the command at hand
    seq,        \* its sequence number
    left,       \* messages of this command not sent yet
    reply,      \* the message that is awaited: its answer, or its writing
    threw,      \* main() is going to be rejected
    out,        \* the lines printed
    code,       \* exit code of the client
    server,     \* the server process
    crashed,    \* it ended before it was asked to
    told,       \* it was told to exit
    served      \* requests answered, of each command

clientVars == <<options, pc, i, seq, left, reply, threw, out, code>>
serverVars == <<server, crashed, told, served>>
vars == <<clientVars, serverVars>>

IsLsp == options.client = "lsp"
Commands == options.commands
Max == IF options.extended THEN Len(Commands) ELSE 5

Running == 99   \* of code: the client has not ended

Init ==
    /\ options \in [client : {"tsserver", "lsp"}, extended : BOOLEAN,
                    cpus : BOOLEAN, commands : Configs]
    /\ pc = "launch"
    /\ i = 0 /\ seq = 1 /\ left = 0 /\ reply = "none"
    /\ threw = FALSE /\ out = <<>> /\ code = Running
    /\ server = "none" /\ crashed = FALSE /\ told = FALSE
    /\ served = [n \in 1 .. Len(Commands) |-> 0]

-----------------------------------------------------------------------------
(* Mutant: one message too many. *)
MessagesOneMore(c) == IF IsLsp /\ c \in {"updateOpen", "geterr"} THEN Files + 1 ELSE 1

(* One message for each file, where LSP has no message for all of them. *)
Messages(c) == IF IsLsp /\ c \in {"updateOpen", "geterr"} THEN Files ELSE 1

(* In LSP opening a file is a notification: there is nothing to wait for but *)
(* that it is written.                                                       *)
IsRequest(c) == ~(IsLsp /\ c = "updateOpen")

AwaitsWrite ==
    \/ pc \in {"initialized", "exitNote"}
    \/ pc = "command" /\ ~IsRequest(Commands[i])

Awaiting == pc \in {"hello", "initialized", "command", "exit", "shutdown", "exitNote"}

ConfigOK == Len(Commands) >= 5 /\ SubSeq(Commands, 1, 5) = Canonical

(* Mutant: a catch block in its place. *)
CleanupInCatch(t) ==
    /\ pc' = IF ~t THEN "settled" ELSE IF IsLsp THEN "shutdown" ELSE "exit"
    /\ reply' = "pending"
    /\ told' = (told \/ (~IsLsp /\ t))

(* The finally block. *)
Cleanup(t) ==
    /\ pc' = IF IsLsp THEN "shutdown" ELSE "exit"
    /\ reply' = "pending"
    /\ told' = (told \/ ~IsLsp)

Throw ==
    /\ threw' = TRUE
    /\ Cleanup(TRUE)
    /\ UNCHANGED <<i, left>>

(* await runCommand(commands[n], seq++) *)
RunCommand(n) ==
    IF Commands[n] \notin Known
    THEN Throw
    ELSE /\ i' = n
         /\ IF Commands[n] = "updateOpen"
            THEN pc' = "read" /\ left' = 0 /\ reply' = "none"
            ELSE pc' = "command" /\ left' = Messages(Commands[n]) - 1 /\ reply' = "pending"
         /\ UNCHANGED <<threw, told>>

(* The head of the loop; with --cpus, measuretsserver.ts first sleeps a little. *)
Proceed(n) ==
    IF n > Max
    THEN Cleanup(FALSE) /\ UNCHANGED <<i, left, threw>>
    ELSE IF ~IsLsp /\ options.cpus
    THEN /\ pc' = "sleep" /\ i' = n /\ reply' = "none"
         /\ UNCHANGED <<left, threw, told>>
    ELSE RunCommand(n)

CheckConfig == IF ConfigOK THEN Proceed(1) ELSE Throw

-----------------------------------------------------------------------------
(* An unreadable configuration, or a server that cannot be started: nothing *)
(* listens to its error event.                                              *)
CannotStart ==
    /\ pc = "launch"
    /\ pc' = "ended"
    /\ code' \in {1, 2}
    /\ UNCHANGED <<options, i, seq, left, reply, threw, out, serverVars>>

(* The CPU affinity of tsserver is set after it was started, which may fail. *)
Launch ==
    /\ pc = "launch"
    /\ server' = "up"
    /\ \/ /\ pc' = "hello" /\ reply' = "pending"
          /\ UNCHANGED <<i, left, threw, told>>
       \/ /\ ~IsLsp /\ options.cpus
          /\ Throw
    /\ UNCHANGED <<options, seq, out, code, crashed, served>>

(* Mutant: measurelsp.ts numbers its commands from 0. *)
SeqAfterHelloLsp0 == IF IsLsp THEN seq ELSE seq + 1

(* "Account for initialize so command numbering matches measuretsserver.ts". *)
SeqAfterHello == seq + 1

(* configure, respectively initialize, is answered. *)
Greeted ==
    /\ pc = "hello" /\ reply = "ok"
    /\ IF IsLsp
       THEN pc' = "initialized" /\ reply' = "pending" /\ UNCHANGED <<i, seq, left, threw, told>>
       ELSE seq' = SeqAfterHello /\ CheckConfig
    /\ UNCHANGED <<options, out, code, server, crashed, served>>

Initialized ==
    /\ pc = "initialized" /\ reply = "ok"
    /\ seq' = SeqAfterHello
    /\ CheckConfig
    /\ UNCHANGED <<options, out, code, server, crashed, served>>

Slept ==
    /\ pc = "sleep"
    /\ RunCommand(i)
    /\ UNCHANGED <<options, seq, out, code, server, crashed, served>>

ReadFiles ==
    /\ pc = "read"
    /\ \/ /\ pc' = "command" /\ left' = Messages(Commands[i]) - 1 /\ reply' = "pending"
          /\ UNCHANGED <<i, threw, told>>
       \/ Throw
    /\ UNCHANGED <<options, seq, out, code, server, crashed, served>>

NextMessage ==
    /\ pc = "command" /\ reply = "ok" /\ left > 0
    /\ left' = left - 1
    /\ reply' = "pending"
    /\ UNCHANGED <<options, pc, i, seq, threw, out, code, serverVars>>

Line(n, c, w) == [no |-> n, name |-> c, what |-> w]

(* console.log: a completion says how many it found before how long it took. *)
Printed(n, c) ==
    IF c = "completionInfo" THEN <<Line(n, c, "count"), Line(n, c, "time")>>
                            ELSE <<Line(n, c, "time")>>

(* Mutant: the files of geterr are not awaited one by one. *)
FirstAnswer == reply = "ok"

AllAnswered == reply = "ok" /\ left = 0

CommandDone ==
    /\ pc = "command" /\ AllAnswered
    /\ out' = out \o Printed(seq - 1, Commands[i])
    /\ seq' = seq + 1
    /\ Proceed(i + 1)
    /\ UNCHANGED <<options, code, server, crashed, served>>

MessageFails ==
    /\ pc \in {"hello", "initialized", "command"} /\ reply = "error"
    /\ Throw
    /\ UNCHANGED <<options, seq, out, code, server, crashed, served>>

(* Errors of the shutdown are swallowed, after which no exit is sent. *)
ShutdownDone ==
    /\ pc = "shutdown" /\ reply \in {"ok", "error"}
    /\ IF reply = "ok" THEN pc' = "exitNote" /\ reply' = "pending"
                       ELSE pc' = "settled" /\ reply' = "none"
    /\ UNCHANGED <<options, i, seq, left, threw, out, code, serverVars>>

ExitNoteDone ==
    /\ pc = "exitNote" /\ reply \in {"ok", "error"}
    /\ pc' = "settled" /\ reply' = "none"
    /\ UNCHANGED <<options, i, seq, left, threw, out, code, serverVars>>

(* measuretsserver.ts does not swallow them. *)
ExitDone ==
    /\ pc = "exit" /\ reply \in {"ok", "error"}
    /\ pc' = "settled" /\ reply' = "none"
    /\ threw' = (threw \/ reply = "error")
    /\ UNCHANGED <<options, i, seq, left, out, code, serverVars>>

(* Mutant: main() has no catch that exits with 2. *)
ExitCodeNoCatch == 0

ExitCode == IF threw THEN 2 ELSE 0

(* process.exit(2) when main() is rejected; otherwise the client ends when it *)
(* has nothing to wait for any more, and a server is something to wait for.   *)
End ==
    /\ pc = "settled"
    /\ threw \/ server = "dead"
    /\ pc' = "ended"
    /\ code' = ExitCode
    /\ UNCHANGED <<options, i, seq, left, reply, threw, out, serverVars>>

(* The server is dead and the promise of a request is never settled: nothing is *)
(* left to wait for, so the client ends in the middle of main(), with success.  *)
(* That of the exit message is settled when the server does as it was told.     *)
Drain ==
    /\ Awaiting /\ ~AwaitsWrite
    /\ pc = "exit" => crashed
    /\ reply = "pending" /\ server = "dead"
    /\ pc' = "ended"
    /\ code' = 0
    /\ UNCHANGED <<options, i, seq, left, reply, threw, out, serverVars>>

-----------------------------------------------------------------------------
(* The server and what carries the messages. *)
Answer ==
    /\ server = "up"
    /\ Awaiting /\ ~AwaitsWrite /\ pc # "exit"
    /\ reply = "pending"
    /\ \/ /\ reply' = "ok"
          /\ served' = IF pc = "command" THEN [served EXCEPT ![i] = @ + 1] ELSE served
       \/ reply' = "error" /\ UNCHANGED served
    /\ UNCHANGED <<options, pc, i, seq, left, threw, out, code, server, crashed, told>>

Written ==
    /\ AwaitsWrite
    /\ reply = "pending"
    /\ \/ reply' = "ok" /\ told' = (told \/ pc = "exitNote")
       \/ reply' = "error" /\ server = "dead" /\ UNCHANGED told
    /\ UNCHANGED <<options, pc, i, seq, left, threw, out, code, server, crashed, served>>

(* The exit message of tsserver has no answer; its promise is settled all the same. *)
ExitAccepted ==
    /\ pc = "exit"
    /\ reply = "pending"
    /\ reply' = "ok"
    /\ UNCHANGED <<options, pc, i, seq, left, threw, out, code, serverVars>>

Rejected ==
    /\ server = "dead"
    /\ Awaiting /\ ~AwaitsWrite
    /\ reply = "pending"
    /\ reply' = "error"
    /\ UNCHANGED <<options, pc, i, seq, left, threw, out, code, serverVars>>

ServerExits ==
    /\ server = "up"
    /\ told
    /\ server' = "dead"
    /\ UNCHANGED <<clientVars, crashed, told, served>>

ServerCrashes ==
    /\ server = "up"
    /\ ~told
    /\ server' = "dead"
    /\ crashed' = TRUE
    /\ UNCHANGED <<clientVars, told, served>>

Ended ==
    /\ pc = "ended"
    /\ UNCHANGED vars

Client ==
    \/ Greeted \/ Initialized \/ Slept \/ ReadFiles \/ NextMessage \/ CommandDone
    \/ MessageFails \/ ShutdownDone \/ ExitNoteDone \/ ExitDone \/ End

Next ==
    \/ CannotStart \/ Launch \/ Client \/ Drain
    \/ Answer \/ Written \/ ExitAccepted \/ Rejected \/ ServerExits \/ ServerCrashes
    \/ Ended

Spec == Init /\ [][Next]_vars

(* The server answers each request and obeys an exit, or crashes. *)
Fairness ==
    /\ WF_vars(Launch \/ CannotStart) /\ WF_vars(Client)
    /\ WF_vars(Answer) /\ WF_vars(Written) /\ WF_vars(ExitAccepted)
    /\ WF_vars(Rejected \/ Drain) /\ WF_vars(ServerExits)

FairSpec == Spec /\ Fairness

-----------------------------------------------------------------------------
Indices == 1 .. Len(Commands)
Names == Known \cup {"other"}

TypeOK ==
    /\ options \in [client : {"tsserver", "lsp"}, extended : BOOLEAN,
                    cpus : BOOLEAN, commands : Configs]
    /\ pc \in {"launch", "hello", "initialized", "sleep", "read", "command", "exit",
               "shutdown", "exitNote", "settled", "ended"}
    /\ i \in 0 .. Max /\ seq \in 1 .. Max + 2 /\ left \in 0 .. Files - 1
    /\ reply \in {"none", "pending", "ok", "error"}
    /\ threw \in BOOLEAN
    /\ out \in Seq([no : 1 .. Max, name : Known, what : {"count", "time"}])
    /\ code \in {0, 1, 2, Running}
    /\ server \in {"none", "up", "dead"} /\ crashed \in BOOLEAN /\ told \in BOOLEAN
    /\ served \in [Indices -> 0 .. Files]

FirstOf(n) == Line(n, Commands[n], IF Commands[n] = "completionInfo" THEN "count" ELSE "time")
Successor(l) == IF l.what = "count" THEN Line(l.no, l.name, "time") ELSE FirstOf(l.no + 1)

(* "So command numbering matches": both clients print the same lines in the same *)
(* order, whatever each of them sends, and whenever they end.                    *)
NumberedAlike ==
    /\ out # <<>> => out[1] = FirstOf(1)
    /\ \A k \in 1 .. Len(out) - 1 : out[k + 1] = Successor(out[k])

(* A time that is printed is that of all requests of the command: the server has *)
(* answered each of them.                                                        *)
TimesAreComplete ==
    \A k \in 1 .. Len(out) :
        LET n == out[k].no
        IN  served[n] = IF IsRequest(Commands[n]) THEN Messages(Commands[n]) ELSE 0

(* If the server did not crash, a client that ends with 0 has printed every      *)
(* line, and has left no server behind; and an error is not lost in the clean-up: *)
(* the client ends with 2, whatever became of the shutdown.                       *)
ExitCodeIsRight ==
    /\ code = 0 =>
        /\ server = "dead"
        /\ ~crashed => /\ out # <<>>
                       /\ out[Len(out)] = Line(Max, Commands[Max], "time")
    /\ pc = "ended" /\ threw => code = 2 \/ crashed

(* The client ends, unless an LSP server refuses to shut down and stays: then no *)
(* exit is sent to it, and a client that has been successful waits for ever.     *)
Refused == IsLsp /\ pc = "settled" /\ ~told /\ ~threw /\ server = "up"
EventuallyEnds == <>(pc = "ended" \/ Refused)
=============================================================================
