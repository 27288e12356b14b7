------------------------- MODULE ServerSession_proofs -------------------------
(***************************************************************************)
(* What a server client prints and how it ends, for any scenario and any   *)
(* number of files.                                                        *)
(***************************************************************************)
EXTENDS ServerSession, SequenceTheorems, TLAPS

Lines == [no : 1 .. Max, name : Known, what : {"count", "time"}]

InCommands == pc \in {"sleep", "read", "command"}
Starting == pc \in {"launch", "hello", "initialized"}
Closing == pc \in {"exit", "shutdown", "exitNote", "settled"}

Required(n) == IF IsRequest(Commands[n]) THEN Messages(Commands[n]) ELSE 0

(* Where the client is determines what it has asked so far. *)
PhaseInv ==
    /\ Starting => i = 0 /\ seq = 1 /\ out = <<>> /\ ~threw
    /\ Starting \/ InCommands => \A n \in Indices : n > i => served[n] = 0
    /\ InCommands => ConfigOK /\ i \in 1 .. Max /\ seq = i + 1 /\ ~threw
    /\ pc \in {"sleep", "read"} => served[i] = 0 /\ reply = "none"
    /\ pc \in {"read", "command"} => Commands[i] \in Known
    /\ pc = "command" =>
        /\ left < Messages(Commands[i])
        /\ served[i] = IF ~IsRequest(Commands[i]) THEN 0
                       ELSE Messages(Commands[i]) - left - (IF reply = "ok" THEN 0 ELSE 1)

(* All commands up to the one at hand have their lines, and no other has. *)
LastLine(n) == Line(n, Commands[n], "time")

OutInv ==
    /\ out # <<>> => ConfigOK
    /\ \A k \in 1 .. Len(out) : InCommands => out[k].no < i
    /\ InCommands => IF i = 1 THEN out = <<>>
                              ELSE out # <<>> /\ out[Len(out)] = LastLine(i - 1)

(* A client that has not failed and has come to its end has printed all. *)
AllPrinted == out # <<>> /\ out[Len(out)] = LastLine(Max)

EndInv ==
    /\ Closing /\ ~threw => AllPrinted
    /\ pc = "ended" <=> code # Running
    /\ code = 0 => server = "dead" /\ (crashed \/ (AllPrinted /\ ~threw))
    /\ code = 1 => ~threw
    /\ crashed => server = "dead"
    /\ server = "dead" /\ ~crashed => told
    /\ told => pc \in {"exit", "exitNote", "settled", "ended"}
    /\ pc = "launch" => server = "none"

Inv == TypeOK /\ PhaseInv /\ OutInv /\ NumberedAlike /\ TimesAreComplete /\ EndInv

-----------------------------------------------------------------------------
LEMMA ScenarioKept ==
  ASSUME UNCHANGED options
  PROVE  /\ Commands' = Commands /\ Max' = Max /\ Indices' = Indices
         /\ (IsLsp' <=> IsLsp) /\ (ConfigOK' <=> ConfigOK)
         /\ Lines' = Lines
         /\ \A c : Messages(c)' = Messages(c) /\ (IsRequest(c)' <=> IsRequest(c))
         /\ \A n : LastLine(n)' = LastLine(n) /\ FirstOf(n)' = FirstOf(n)
                   /\ Required(n)' = Required(n)
  BY DEF Commands, Max, Indices, IsLsp, ConfigOK, Lines, Messages, IsRequest, LastLine,
         FirstOf, Line, Required

LEMMA Scenario ==
  ASSUME TypeOK
  PROVE  /\ Commands \in Seq(Names) /\ Len(Commands) \in Nat
         /\ Max \in Nat /\ Indices = 1 .. Len(Commands)
         /\ ConfigOK => 5 <= Max /\ Max <= Len(Commands)
         /\ \A c : Messages(c) \in 1 .. Files
<1>1. Commands \in Seq(Names)
  BY SessionAssumption DEF TypeOK, Commands, Names
<1>2. Len(Commands) \in Nat
  BY <1>1, LenProperties
<1>3. ConfigOK => Len(Commands) >= 5
  BY DEF ConfigOK
<1>4. QED
  BY <1>1, <1>2, <1>3, SessionAssumption DEF Max, Indices, Messages

(* What is printed stays as good as it was. *)
LEMMA LinesKept ==
  ASSUME NumberedAlike, TimesAreComplete, UNCHANGED <<options, out, served>>
  PROVE  NumberedAlike' /\ TimesAreComplete'
  BY ScenarioKept DEF NumberedAlike, TimesAreComplete, Successor, FirstOf, Line, Commands,
     IsRequest, Messages, IsLsp

LEMMA AnswersKept ==
  ASSUME TimesAreComplete, TypeOK, UNCHANGED <<options, out>>,
         \A k \in 1 .. Len(out) : served'[out[k].no] = served[out[k].no]
  PROVE  TimesAreComplete'
  BY ScenarioKept DEF TimesAreComplete, Commands, IsRequest, Messages, IsLsp

(* The lines are in order in the next state, up to command n - 1. *)
LinesReady(n) ==
    /\ (out \in Seq(Lines))' /\ NumberedAlike' /\ TimesAreComplete'
    /\ \A k \in 1 .. Len(out') : out'[k].no < n
    /\ IF n = 1 THEN out' = <<>> ELSE out' # <<>> /\ out'[Len(out')] = LastLine(n - 1)

LEMMA ThrowStep ==
  ASSUME Inv, Throw, Starting \/ InCommands, UNCHANGED <<options, code, crashed, served>>,
         server' = server \/ (~crashed /\ server' = "up"),
         (out \in Seq(Lines))', NumberedAlike', TimesAreComplete', out' # <<>> => ConfigOK,
         seq' \in 1 .. Max + 2
  PROVE  Inv'
<1>1. /\ pc' \in {"exit", "shutdown"} /\ reply' = "pending" /\ threw' = TRUE
      /\ told' \in BOOLEAN /\ (told' => pc' = "exit" \/ told)
      /\ i' = i /\ left' = left
  BY DEF Inv, TypeOK, Throw, Cleanup
<1>2. ~told /\ code = Running
  BY DEF Inv, EndInv, Starting, InCommands
<1>3. TypeOK'
  BY <1>1, ScenarioKept DEF Inv, TypeOK, Lines
<1>4. PhaseInv'
  BY <1>1 DEF PhaseInv, Starting, InCommands
<1>5. OutInv'
  BY <1>1, ScenarioKept DEF OutInv, InCommands
<1>6. EndInv'
  BY <1>1, <1>2 DEF Inv, TypeOK, EndInv, Running, Closing
<1>7. QED
  BY <1>3, <1>4, <1>5, <1>6 DEF Inv

LEMMA RunCommandStep ==
  ASSUME Inv, ConfigOK, NEW n \in 1 .. Max, RunCommand(n), LinesReady(n),
         Starting \/ InCommands, pc # "launch", ~threw, seq' = n + 1,
         \A m \in Indices : m >= n => served[m] = 0,
         UNCHANGED <<options, code, server, crashed, served>>
  PROVE  Inv'
<1>0. out' # <<>> => ConfigOK
  OBVIOUS
<1>a. n \in Indices /\ seq' \in 1 .. Max + 2 /\ Commands[n] \in Names
  <2>1. n \in 1 .. Len(Commands)
    BY Scenario DEF Inv
  <2>2. QED
    BY <2>1, Scenario, ElementOfSeq DEF Inv
<1>1. CASE Commands[n] \notin Known
  <2>1. Throw
    BY <1>1 DEF RunCommand
  <2>2. QED
    BY <2>1, <1>0, <1>a, ThrowStep DEF LinesReady
<1>2. CASE Commands[n] \in Known
  <2>1. /\ i' = n /\ threw' = threw /\ told' = told
        /\ \/ pc' = "read" /\ left' = 0 /\ reply' = "none"
           \/ pc' = "command" /\ left' = Messages(Commands[n]) - 1 /\ reply' = "pending"
    BY <1>2 DEF RunCommand
  <2>2. ~told /\ code = Running
    BY DEF Inv, EndInv, Starting, InCommands
  <2>3. left' \in 0 .. Files - 1 /\ i' \in 0 .. Max
    BY <2>1, Scenario, SessionAssumption DEF Inv
  <2>4. TypeOK'
    BY <1>a, <2>1, <2>3, ScenarioKept DEF Inv, TypeOK, Lines, LinesReady
  <2>5. PhaseInv'
    <3>1. served'[n] = 0 /\ \A m \in Indices' : m > n => served'[m] = 0
      BY <1>a, Scenario, ScenarioKept DEF Inv
    <3>2. Messages(Commands[n]) \in Nat \ {0}
      BY Scenario DEF Inv
    <3>3. QED
      BY <1>2, <2>1, <3>1, <3>2, ScenarioKept DEF PhaseInv, Starting, InCommands
  <2>6. OutInv'
    BY <2>1, ScenarioKept DEF LinesReady, OutInv, InCommands
  <2>7. EndInv'
    BY <2>1, <2>2 DEF Inv, TypeOK, EndInv, Running, Closing, Starting, InCommands
  <2>8. QED
    BY <2>4, <2>5, <2>6, <2>7 DEF Inv, LinesReady
<1>3. QED
  BY <1>1, <1>2

LEMMA ProceedStep ==
  ASSUME Inv, ConfigOK, NEW n \in 1 .. Max + 1, Proceed(n), LinesReady(n),
         Starting \/ InCommands, pc # "launch", ~threw, seq' = n + 1,
         \A m \in Indices : m >= n => served[m] = 0,
         UNCHANGED <<options, code, server, crashed, served>>
  PROVE  Inv'
<1>a. Max \in Nat /\ 5 <= Max /\ Max <= Len(Commands) /\ Len(Commands) \in Nat
  BY Scenario DEF Inv
<1>b. ~told /\ code = Running
  BY DEF Inv, EndInv, Starting, InCommands
<1>1. CASE n > Max
  <2>1. /\ pc' \in {"exit", "shutdown"} /\ reply' = "pending" /\ threw' = threw
        /\ told' \in BOOLEAN /\ (told' => pc' = "exit" \/ told)
        /\ i' = i /\ left' = left
    BY <1>1 DEF Inv, TypeOK, Proceed, Cleanup
  <2>2. n = Max + 1
    BY <1>1, <1>a
  <2>3. TypeOK'
    BY <1>a, <2>1, <2>2, ScenarioKept DEF Inv, TypeOK, Lines, LinesReady
  <2>4. PhaseInv'
    BY <2>1 DEF PhaseInv, Starting, InCommands
  <2>5. OutInv'
    BY <2>1, ScenarioKept DEF OutInv, InCommands
  <2>6. AllPrinted'
    BY <1>a, <2>2, ScenarioKept DEF LinesReady, AllPrinted
  <2>7. EndInv'
    BY <1>b, <2>1, <2>6 DEF Inv, TypeOK, EndInv, Running, Closing
  <2>8. QED
    BY <2>3, <2>4, <2>5, <2>7 DEF Inv, LinesReady
<1>2. CASE n <= Max /\ ~IsLsp /\ options.cpus
  <2>0. ~(n > Max)
    BY <1>a, <1>2
  <2>1. /\ pc' = "sleep" /\ i' = n /\ reply' = "none"
        /\ left' = left /\ threw' = threw /\ told' = told
    BY <2>0, <1>2, Zenon DEF Proceed
  <2>2. n \in Indices
    BY <1>a, <1>2, Scenario DEF Inv
  <2>3. TypeOK'
    <3>1. i' \in 0 .. Max /\ seq' \in 1 .. Max + 2
      BY <1>a, <1>2, <2>1
    <3>2. QED
      BY <2>1, <3>1, ScenarioKept DEF Inv, TypeOK, Lines, LinesReady
  <2>4. PhaseInv'
    BY <1>a, <1>2, <2>1, <2>2, ScenarioKept DEF Inv, PhaseInv, Starting, InCommands, Indices
  <2>5. OutInv'
    BY <2>1, ScenarioKept DEF LinesReady, OutInv, InCommands
  <2>6. EndInv'
    BY <2>1, <1>b DEF Inv, TypeOK, EndInv, Running, Closing, Starting, InCommands
  <2>7. QED
    BY <2>3, <2>4, <2>5, <2>6 DEF Inv, LinesReady
<1>3. CASE n <= Max /\ ~(~IsLsp /\ options.cpus)
  <2>1. n \in 1 .. Max /\ ~(n > Max)
    BY <1>a, <1>3
  <2>2. RunCommand(n)
    BY <2>1, <1>3, Zenon DEF Proceed
  <2>3. QED
    BY <2>1, <2>2, RunCommandStep
<1>4. QED
  BY <1>1, <1>2, <1>3, <1>a

-----------------------------------------------------------------------------
LEMMA InitInv == Init => Inv
<1> SUFFICES ASSUME Init PROVE Inv
  OBVIOUS
<1>1. Commands \in Seq(Names) /\ Len(Commands) \in Nat
  <2>1. Commands \in Seq(Names)
    BY SessionAssumption DEF Init, Commands, Names
  <2>2. QED
    BY <2>1, LenProperties
<1>2. TypeOK
  <2>1. Max \in Nat
    BY <1>1 DEF Max
  <2>2. <<>> \in Seq([no : 1 .. Max, name : Known, what : {"count", "time"}])
    BY EmptySeq
  <2>3. served \in [Indices -> 0 .. Files]
    BY SessionAssumption DEF Init, Indices
  <2>4. i \in 0 .. Max /\ seq \in 1 .. Max + 2 /\ left \in 0 .. Files - 1
    BY <2>1, SessionAssumption DEF Init
  <2>5. QED
    BY <2>2, <2>3, <2>4 DEF Init, TypeOK, Running
<1>3. out = <<>> /\ Len(out) = 0
  BY EmptySeq DEF Init
<1>4. PhaseInv
  BY <1>1 DEF Init, PhaseInv, Starting, InCommands, Indices
<1>5. OutInv /\ NumberedAlike /\ TimesAreComplete
  BY <1>3 DEF Init, OutInv, InCommands, NumberedAlike, TimesAreComplete
<1>6. EndInv
  BY DEF Init, EndInv, Running, Closing
<1>7. QED
  BY <1>2, <1>4, <1>5, <1>6 DEF Inv

(* A client that throws, or goes on, without having printed anything. *)
LEMMA NothingPrinted ==
  ASSUME Inv, Starting, UNCHANGED <<options, out, served>>
  PROVE  LinesReady(1) /\ \A m \in Indices : m >= 1 => served[m] = 0
<1>1. out = <<>> /\ Len(out) = 0 /\ out \in Seq(Lines)
  BY EmptySeq DEF Inv, PhaseInv
<1>2. NumberedAlike' /\ TimesAreComplete'
  BY LinesKept DEF Inv
<1>3. QED
  BY <1>1, <1>2, ScenarioKept, Scenario DEF LinesReady, Inv, PhaseInv

(* What a throw needs to know of the lines. *)
LEMMA PrintedBefore ==
  ASSUME Inv, UNCHANGED <<options, out, served>>
  PROVE  /\ (out \in Seq(Lines))' /\ NumberedAlike' /\ TimesAreComplete'
         /\ out' # <<>> => ConfigOK
  BY LinesKept, ScenarioKept DEF Inv, OutInv, TypeOK, Lines

LEMMA LaunchStep == ASSUME Inv, Launch PROVE Inv'
<1>0. /\ pc = "launch" /\ server' = "up" /\ ~crashed /\ ~told /\ server = "none"
      /\ UNCHANGED <<options, seq, out, code, crashed, served>>
      /\ seq \in 1 .. Max + 2
  BY DEF Launch, Inv, EndInv, TypeOK
<1>1. CASE Throw
  BY <1>0, <1>1, PrintedBefore, ThrowStep DEF Starting
<1>2. CASE pc' = "hello" /\ reply' = "pending" /\ UNCHANGED <<i, left, threw, told>>
  <2>1. TypeOK'
    BY <1>0, <1>2, ScenarioKept DEF Inv, TypeOK
  <2>2. PhaseInv'
    BY <1>0, <1>2, ScenarioKept DEF Inv, PhaseInv, Starting, InCommands
  <2>3. OutInv' /\ NumberedAlike' /\ TimesAreComplete'
    BY <1>0, <1>2, PrintedBefore, ScenarioKept DEF OutInv, InCommands
  <2>4. EndInv'
    BY <1>0, <1>2 DEF Inv, TypeOK, EndInv, Running, Closing
  <2>5. QED
    BY <2>1, <2>2, <2>3, <2>4 DEF Inv
<1>3. QED
  BY <1>1, <1>2 DEF Launch

LEMMA CheckConfigStep ==
  ASSUME Inv, CheckConfig, pc \in {"hello", "initialized"}, seq' = seq + 1,
         UNCHANGED <<options, out, code, server, crashed, served>>
  PROVE  Inv'
<1>0. seq' = 2 /\ ~threw /\ Starting /\ Max \in Nat
  BY Scenario DEF Inv, PhaseInv, Starting
<1>1. CASE ConfigOK
  <2>1. Proceed(1) /\ 1 \in 1 .. Max + 1
    BY <1>0, <1>1 DEF CheckConfig
  <2>2. QED
    BY <1>0, <1>1, <2>1, NothingPrinted, ProceedStep
<1>2. CASE ~ConfigOK
  <2>1. Throw /\ seq' \in 1 .. Max + 2
    BY <1>0, <1>2 DEF CheckConfig
  <2>2. QED
    BY <1>0, <2>1, PrintedBefore, ThrowStep
<1>3. QED
  BY <1>1, <1>2

LEMMA GreetedStep == ASSUME Inv, Greeted PROVE Inv'
<1>0. /\ pc = "hello"
      /\ UNCHANGED <<options, out, code, server, crashed, served>>
  BY DEF Greeted
<1>1. CASE IsLsp
  <2>1. pc' = "initialized" /\ reply' = "pending" /\ UNCHANGED <<i, seq, left, threw, told>>
    BY <1>1 DEF Greeted
  <2>2. TypeOK'
    BY <1>0, <2>1, ScenarioKept DEF Inv, TypeOK
  <2>3. PhaseInv'
    BY <1>0, <2>1, ScenarioKept DEF Inv, PhaseInv, Starting, InCommands
  <2>4. OutInv' /\ NumberedAlike' /\ TimesAreComplete'
    BY <1>0, <2>1, PrintedBefore, ScenarioKept DEF OutInv, InCommands
  <2>5. EndInv'
    BY <1>0, <2>1 DEF Inv, TypeOK, EndInv, Running, Closing
  <2>6. QED
    BY <2>2, <2>3, <2>4, <2>5 DEF Inv
<1>2. CASE ~IsLsp
  <2>1. CheckConfig /\ seq' = seq + 1
    BY <1>2 DEF Greeted, SeqAfterHello
  <2>2. QED
    BY <1>0, <2>1, CheckConfigStep
<1>3. QED
  BY <1>1, <1>2

LEMMA SleptStep == ASSUME Inv, Slept PROVE Inv'
<1>1. /\ pc = "sleep" /\ RunCommand(i)
      /\ UNCHANGED <<options, seq, out, code, server, crashed, served>>
  BY DEF Slept
<1>2. /\ ConfigOK /\ i \in 1 .. Max /\ seq = i + 1 /\ ~threw /\ served[i] = 0 /\ InCommands
      /\ \A m \in Indices : m >= i => served[m] = 0
  BY <1>1, Scenario DEF Inv, PhaseInv, InCommands
<1>3. LinesReady(i)
  BY <1>1, <1>2, PrintedBefore, ScenarioKept DEF LinesReady, Inv, OutInv
<1>4. QED
  BY <1>1, <1>2, <1>3, RunCommandStep

(* Steps that neither print nor are answered. *)
LEMMA QuietStep ==
  ASSUME Inv, UNCHANGED <<options, out, served>>, TypeOK', PhaseInv', EndInv',
         InCommands' => InCommands /\ i' = i
  PROVE  Inv'
<1>1. OutInv'
  BY ScenarioKept DEF Inv, OutInv, InCommands
<1>2. QED
  BY <1>1, PrintedBefore DEF Inv

LEMMA CannotStartStep == ASSUME Inv, CannotStart PROVE Inv'
<1>1. TypeOK'
  BY ScenarioKept DEF CannotStart, serverVars, Inv, TypeOK
<1>2. PhaseInv'
  BY DEF CannotStart, PhaseInv, Starting, InCommands
<1>3. EndInv'
  BY DEF CannotStart, serverVars, Inv, TypeOK, EndInv, PhaseInv, Starting, Running, Closing
<1>4. QED
  BY <1>1, <1>2, <1>3, QuietStep DEF CannotStart, serverVars, InCommands

LEMMA ReadFilesStep == ASSUME Inv, ReadFiles PROVE Inv'
<1>0. /\ pc = "read" /\ InCommands
      /\ UNCHANGED <<options, seq, out, code, server, crashed, served>>
  BY DEF ReadFiles, InCommands
<1>1. CASE Throw
  <2>1. seq' \in 1 .. Max + 2
    BY <1>0 DEF Inv, TypeOK
  <2>2. QED
    BY <1>0, <1>1, <2>1, PrintedBefore, ThrowStep
<1>2. CASE /\ pc' = "command" /\ left' = Messages(Commands[i]) - 1 /\ reply' = "pending"
           /\ UNCHANGED <<i, threw, told>>
  <2>1. Messages(Commands[i]) \in 1 .. Files
    BY Scenario DEF Inv
  <2>2. left' \in 0 .. Files - 1 /\ left' < Messages(Commands[i])
    BY <1>2, <2>1, SessionAssumption
  <2>3. TypeOK'
    BY <1>0, <1>2, <2>2, ScenarioKept DEF Inv, TypeOK
  <2>4. PhaseInv'
    BY <1>0, <1>2, <2>1, <2>2, ScenarioKept, SessionAssumption DEF Inv, PhaseInv, Starting, InCommands
  <2>5. EndInv'
    BY <1>0, <1>2 DEF Inv, TypeOK, EndInv, Running, Closing
  <2>6. QED
    BY <1>0, <1>2, <2>3, <2>4, <2>5, QuietStep DEF InCommands
<1>3. QED
  BY <1>1, <1>2 DEF ReadFiles

LEMMA NextMessageStep == ASSUME Inv, NextMessage PROVE Inv'
<1>1. /\ pc = "command" /\ pc' = pc /\ reply = "ok" /\ left > 0 /\ left' = left - 1
      /\ reply' = "pending" /\ UNCHANGED <<options, i, seq, threw, out, code, serverVars>>
  BY DEF NextMessage
<1>2. left' \in 0 .. Files - 1 /\ left' < left /\ left \in Nat /\ Messages(Commands[i]) \in Nat
  BY <1>1, Scenario, SessionAssumption DEF Inv, TypeOK
<1>3. TypeOK'
  BY <1>1, <1>2, ScenarioKept DEF serverVars, Inv, TypeOK
<1>4. PhaseInv'
  BY <1>1, <1>2, ScenarioKept DEF serverVars, Inv, PhaseInv, Starting, InCommands
<1>5. EndInv'
  BY <1>1 DEF serverVars, Inv, TypeOK, EndInv, Running, Closing
<1>6. QED
  BY <1>1, <1>3, <1>4, <1>5, QuietStep DEF serverVars, InCommands

LEMMA MessageFailsStep == ASSUME Inv, MessageFails PROVE Inv'
<1>1. /\ Starting \/ InCommands
      /\ Throw /\ UNCHANGED <<options, seq, out, code, server, crashed, served>>
      /\ seq' \in 1 .. Max + 2
  BY DEF MessageFails, Starting, InCommands, Inv, TypeOK
<1>2. QED
  BY <1>1, PrintedBefore, ThrowStep

(* From the clean-up to the end nothing is printed and nothing asked. *)
LEMMA ClosingStep ==
  ASSUME Inv, pc \in {"exit", "shutdown", "exitNote"},
         pc' \in {"exit", "shutdown", "exitNote", "settled"}, reply' \in {"none", "pending", "ok", "error"},
         threw' \in BOOLEAN, threw => threw', told' \in BOOLEAN, told => told',
         told' => pc' \in {"exit", "exitNote", "settled"},
         UNCHANGED <<options, i, seq, left, out, code, server, crashed, served>>
  PROVE  Inv'
<1>1. TypeOK'
  BY ScenarioKept DEF Inv, TypeOK
<1>2. PhaseInv'
  BY DEF PhaseInv, Starting, InCommands
<1>3. EndInv'
  BY ScenarioKept DEF Inv, TypeOK, EndInv, Running, Closing, AllPrinted
<1>4. QED
  BY <1>1, <1>2, <1>3, QuietStep DEF InCommands

LEMMA ClosingSteps ==
  ASSUME Inv, ShutdownDone \/ ExitNoteDone \/ ExitDone \/ ExitAccepted
  PROVE  Inv'
<1>1. told => pc \in {"exit", "exitNote", "settled", "ended"}
  BY DEF Inv, EndInv
<1>2. threw \in BOOLEAN /\ told \in BOOLEAN
  BY DEF Inv, TypeOK
<1>3. QED
  BY <1>1, <1>2, ClosingStep DEF ShutdownDone, ExitNoteDone, ExitDone, ExitAccepted, serverVars

LEMMA EndStep == ASSUME Inv, End PROVE Inv'
<1>1. TypeOK'
  BY ScenarioKept DEF End, ExitCode, serverVars, Inv, TypeOK
<1>2. PhaseInv'
  BY DEF End, PhaseInv, Starting, InCommands
<1>3. EndInv'
  BY ScenarioKept DEF End, ExitCode, serverVars, Inv, TypeOK, EndInv, Running, Closing, AllPrinted
<1>4. QED
  BY <1>1, <1>2, <1>3, QuietStep DEF End, serverVars, InCommands

LEMMA DrainStep == ASSUME Inv, Drain PROVE Inv'
<1>1. crashed
  BY DEF Drain, Awaiting, AwaitsWrite, Inv, EndInv
<1>2. TypeOK'
  BY ScenarioKept DEF Drain, serverVars, Inv, TypeOK
<1>3. PhaseInv'
  BY DEF Drain, PhaseInv, Starting, InCommands
<1>4. EndInv'
  BY <1>1 DEF Drain, serverVars, Inv, TypeOK, EndInv, Running, Closing
<1>5. QED
  BY <1>2, <1>3, <1>4, QuietStep DEF Drain, serverVars, InCommands

LEMMA Pair ==
  ASSUME NEW S, NEW a \in S, NEW b \in S
  PROVE  /\ <<a, b>> \in Seq(S) /\ Len(<<a, b>>) = 2 /\ <<a, b>>[1] = a /\ <<a, b>>[2] = b
         /\ <<a>> \in Seq(S) /\ Len(<<a>>) = 1 /\ <<a>>[1] = a
  OBVIOUS

(* The lines of command n come after those of the commands before it. *)
LEMMA PrintedLines ==
  ASSUME NEW n \in 1 .. Max, NEW c \in Known
  PROVE  /\ Printed(n, c) \in Seq(Lines)
         /\ Len(Printed(n, c)) = IF c = "completionInfo" THEN 2 ELSE 1
         /\ c = "completionInfo" => /\ Printed(n, c)[1] = Line(n, c, "count")
                                    /\ Printed(n, c)[2] = Line(n, c, "time")
         /\ c # "completionInfo" => Printed(n, c)[1] = Line(n, c, "time")
<1>1. /\ Line(n, c, "time") \in Lines /\ Line(n, c, "count") \in Lines
  BY DEF Line, Lines
<1>2. CASE c = "completionInfo"
  <2>1. Printed(n, c) = <<Line(n, c, "count"), Line(n, c, "time")>>
    BY <1>2 DEF Printed
  <2>2. /\ Printed(n, c) \in Seq(Lines) /\ Len(Printed(n, c)) = 2
        /\ Printed(n, c)[1] = Line(n, c, "count") /\ Printed(n, c)[2] = Line(n, c, "time")
    <3> DEFINE a == Line(n, c, "count")
               b == Line(n, c, "time")
    <3>1. a \in Lines /\ b \in Lines /\ Printed(n, c) = <<a, b>>
      BY <1>1, <2>1
    <3> HIDE DEF a, b
    <3>2. Printed(n, c) \in Seq(Lines) /\ Len(Printed(n, c)) = 2
      BY <3>1
    <3>3. Printed(n, c)[1] = a /\ Printed(n, c)[2] = b
      BY <3>1
    <3>4. QED
      BY <3>2, <3>3 DEF a, b
  <2>3. QED
    BY <1>2, <2>2, Zenon
<1>3. CASE c # "completionInfo"
  <2>1. Printed(n, c) = <<Line(n, c, "time")>>
    BY <1>3 DEF Printed
  <2>2. QED
    BY <1>1, <1>3, <2>1, Pair, Zenon
<1>4. QED
  BY <1>2, <1>3

LEMMA PrintsNext ==
  ASSUME Inv, pc = "command", reply = "ok", left = 0,
         out' = out \o Printed(i, Commands[i]), UNCHANGED <<options, served>>
  PROVE  LinesReady(i + 1)
<1> DEFINE c == Commands[i]
           P == Printed(i, c)
           m == Len(out)
<1>1. /\ i \in 1 .. Max /\ ConfigOK /\ c \in Known /\ InCommands /\ Max \in Nat
      /\ out \in Seq(Lines) /\ m \in Nat
      /\ served[i] = Required(i)
  <2>1. /\ i \in 1 .. Max /\ ConfigOK /\ c \in Known /\ InCommands /\ out \in Seq(Lines)
    BY DEF Inv, TypeOK, PhaseInv, InCommands, Lines
  <2>2. served[i] = Required(i)
    BY Scenario DEF Inv, PhaseInv, InCommands, Required
  <2>3. QED
    BY <2>1, <2>2, Scenario, LenProperties DEF Inv
<1>2. /\ P \in Seq(Lines)
      /\ Len(P) = IF c = "completionInfo" THEN 2 ELSE 1
      /\ c = "completionInfo" => P[1] = Line(i, c, "count") /\ P[2] = Line(i, c, "time")
      /\ c # "completionInfo" => P[1] = Line(i, c, "time")
      /\ Len(P) \in {1, 2}
  BY <1>1, PrintedLines
<1> HIDE DEF c, P
<1>3. /\ out' \in Seq(Lines) /\ Len(out') = m + Len(P)
      /\ \A k \in 1 .. m : out'[k] = out[k]
      /\ out'[m + 1] = P[1]
      /\ c = "completionInfo" => out'[m + 2] = P[2]
  <2>1. out' = out \o P
    BY DEF P, c
  <2>2. /\ out' \in Seq(Lines) /\ Len(out') = m + Len(P)
        /\ \A k \in 1 .. m + Len(P) : out'[k] = IF k <= m THEN out[k] ELSE P[k - m]
    <3>1. /\ out \o P \in Seq(Lines) /\ Len(out \o P) = Len(out) + Len(P)
          /\ \A k \in 1 .. Len(out) + Len(P) :
                (out \o P)[k] = IF k <= Len(out) THEN out[k] ELSE P[k - Len(out)]
      BY <1>1, <1>2, ConcatProperties, Zenon
    <3>2. QED
      BY <2>1, <3>1, Zenon
  <2>3. m + 1 \in 1 .. m + Len(P) /\ ~(m + 1 <= m) /\ (m + 1) - m = 1
    BY <1>1, <1>2
  <2>4. c = "completionInfo" => m + 2 \in 1 .. m + Len(P) /\ ~(m + 2 <= m) /\ (m + 2) - m = 2
    BY <1>1, <1>2
  <2>5. \A k \in 1 .. m : k \in 1 .. m + Len(P) /\ k <= m
    BY <1>1, <1>2
  <2>6. QED
    BY <2>2, <2>3, <2>4, <2>5
<1>4. P[1] = FirstOf(i)
  BY <1>2 DEF FirstOf, c
<1>5. m = 0 \/ (m \in Nat \ {0} /\ Successor(out[m]) = FirstOf(i))
  <2>1. CASE i = 1
    BY <2>1, <1>1, EmptySeq DEF Inv, OutInv
  <2>2. CASE i # 1
    <3>1. out # <<>> /\ out[m] = LastLine(i - 1)
      BY <1>1, <2>2 DEF Inv, OutInv
    <3>2. m \in Nat \ {0}
      BY <1>1, <3>1, EmptySeq
    <3>3. Successor(LastLine(i - 1)) = FirstOf(i)
      BY <1>1 DEF Successor, LastLine, Line
    <3>4. QED
      BY <3>1, <3>2, <3>3
  <2>3. QED
    BY <2>1, <2>2
<1>6. m = 0 => i = 1
  BY <1>1, EmptySeq DEF Inv, OutInv
<1>7. c = "completionInfo" => Successor(P[1]) = P[2]
  BY <1>2 DEF Successor, Line
<1>8. out'[1] = FirstOf(1)
  <2>1. CASE m = 0
    <3>1. m + 1 = 1
      BY <2>1
    <3>2. QED
      BY <1>3, <1>4, <1>6, <2>1, <3>1
  <2>2. CASE m \in Nat \ {0}
    <3>1. 1 \in 1 .. m /\ out # <<>>
      BY <2>2, EmptySeq
    <3>2. out[1] = FirstOf(1)
      BY <3>1 DEF Inv, NumberedAlike
    <3>3. QED
      BY <1>3, <3>1, <3>2
  <2>3. QED
    BY <1>1, <2>1, <2>2
<1>9. \A k \in 1 .. Len(out') - 1 : out'[k + 1] = Successor(out'[k])
  <2> SUFFICES ASSUME NEW k \in 1 .. Len(out') - 1
               PROVE  out'[k + 1] = Successor(out'[k])
    OBVIOUS
  <2>1. CASE k < m
    <3>1. k \in 1 .. m - 1 /\ k \in 1 .. m /\ k + 1 \in 1 .. m
      BY <1>1, <2>1
    <3>2. QED
      BY <1>3, <3>1 DEF Inv, NumberedAlike
  <2>2. CASE k = m
    BY <1>3, <1>4, <1>5, <2>2
  <2>3. CASE k = m + 1
    BY <1>1, <1>2, <1>3, <1>7, <2>3
  <2>4. k \in 1 .. m + 1
    BY <1>1, <1>2, <1>3
  <2>5. QED
    BY <1>1, <2>1, <2>2, <2>3, <2>4
<1>10. \A k \in 1 .. Len(out') : out'[k].no < i \/ out'[k].no = i
  <2>1. P[1].no = i /\ (c = "completionInfo" => P[2].no = i)
    BY <1>2 DEF Line
  <2>2. SUFFICES ASSUME NEW k \in 1 .. Len(out')
                 PROVE  out'[k].no < i \/ out'[k].no = i
    OBVIOUS
  <2>3. CASE k \in 1 .. m
    <3>1. InCommands /\ out[k].no < i
      BY <1>1, <2>3 DEF Inv, OutInv, InCommands
    <3>2. QED
      BY <1>3, <2>3, <3>1
  <2>4. CASE k \notin 1 .. m
    BY <1>1, <1>2, <1>3, <2>4 DEF Line
  <2>5. QED
    BY <2>3, <2>4
<1>11. \A k \in 1 .. Len(out') : served[out'[k].no] = Required(out'[k].no)
  <2> SUFFICES ASSUME NEW k \in 1 .. Len(out')
               PROVE  served[out'[k].no] = Required(out'[k].no)
    OBVIOUS
  <2>1. CASE k \in 1 .. m
    BY <1>3, <2>1 DEF Inv, TimesAreComplete, Required
  <2>2. CASE k \notin 1 .. m
    <3>1. out'[k].no = i
      BY <1>1, <1>2, <1>3, <2>2 DEF Line
    <3>2. QED
      BY <1>1, <3>1
  <2>3. QED
    BY <2>1, <2>2
<1>12. out' # <<>> /\ out'[Len(out')] = LastLine(i)
  <2>1. Len(out') \in Nat \ {0}
    BY <1>1, <1>2, <1>3
  <2>2. out'[Len(out')] = Line(i, c, "time")
    BY <1>1, <1>2, <1>3
  <2>3. QED
    BY <2>1, <2>2, EmptySeq DEF LastLine, c
<1>13. NumberedAlike'
  BY <1>8, <1>9, ScenarioKept DEF NumberedAlike, Successor, FirstOf, Line, Commands
<1>14. TimesAreComplete'
  BY <1>11, ScenarioKept DEF TimesAreComplete, Required, Commands
<1>15. \A k \in 1 .. Len(out') : out'[k].no < i + 1
  <2> SUFFICES ASSUME NEW k \in 1 .. Len(out')
               PROVE  out'[k].no < i + 1
    OBVIOUS
  <2>1. out'[k] \in Lines
    BY <1>3, ElementOfSeq
  <2>2. out'[k].no \in 1 .. Max
    BY <2>1 DEF Lines
  <2>3. out'[k].no < i \/ out'[k].no = i
    BY <1>10
  <2>4. i \in Nat /\ Max \in Nat
    BY <1>1
  <2> DEFINE x == out'[k].no
  <2>5. x \in Nat /\ (x < i \/ x = i)
    BY <2>2, <2>3, <2>4
  <2> HIDE DEF x
  <2>6. x < i + 1
    BY <2>4, <2>5
  <2>7. QED
    BY <2>6 DEF x
<1>16. i + 1 # 1 /\ (i + 1) - 1 = i
  BY <1>1
<1>17. QED
  BY <1>3, <1>12, <1>13, <1>14, <1>15, <1>16, ScenarioKept DEF LinesReady

LEMMA CommandDoneStep == ASSUME Inv, CommandDone PROVE Inv'
<1>1. /\ pc = "command" /\ reply = "ok" /\ left = 0
      /\ out' = out \o Printed(seq - 1, Commands[i]) /\ seq' = seq + 1
      /\ Proceed(i + 1)
      /\ UNCHANGED <<options, code, server, crashed, served>>
  BY DEF CommandDone, AllAnswered
<1>2. /\ ConfigOK /\ i \in 1 .. Max /\ seq = i + 1 /\ ~threw /\ InCommands /\ Max \in Nat
      /\ \A m \in Indices : m >= i + 1 => served[m] = 0
  BY <1>1, Scenario DEF Inv, PhaseInv, InCommands
<1>3. seq - 1 = i /\ i + 1 \in 1 .. Max + 1 /\ seq' = (i + 1) + 1
  BY <1>1, <1>2
<1>4. LinesReady(i + 1)
  BY <1>1, <1>3, PrintsNext
<1>5. QED
  BY <1>1, <1>2, <1>3, <1>4, ProceedStep

LEMMA InitializedStep == ASSUME Inv, Initialized PROVE Inv'
  BY CheckConfigStep DEF Initialized, SeqAfterHello

-----------------------------------------------------------------------------
LEMMA AnswerStep == ASSUME Inv, Answer PROVE Inv'
<1>1. /\ server = "up" /\ reply = "pending" /\ reply' \in {"ok", "error"} /\ pc # "launch"
      /\ UNCHANGED <<options, pc, i, seq, left, threw, out, code, server, crashed, told>>
  BY DEF Answer, Awaiting
<1>2. CASE served' = served
  <2>1. pc = "command" => reply' = "error"
    <3>1. CASE pc = "command" /\ reply' = "ok"
      <4>1. served' = [served EXCEPT ![i] = @ + 1] /\ i \in Indices /\ served[i] \in Nat
        BY <1>1, <3>1, Scenario DEF Answer, Inv, PhaseInv, InCommands, TypeOK
      <4>2. QED
        BY <1>2, <4>1 DEF Inv, TypeOK
    <3>2. QED
      BY <1>1, <3>1
  <2>2. TypeOK'
    BY <1>1, <1>2, ScenarioKept DEF Inv, TypeOK
  <2>3. PhaseInv'
    BY <1>1, <1>2, <2>1, ScenarioKept DEF Inv, PhaseInv, Starting, InCommands
  <2>4. EndInv'
    BY <1>1, ScenarioKept DEF Inv, TypeOK, EndInv, Running, Closing, AllPrinted
  <2>5. QED
    BY <1>1, <1>2, <2>2, <2>3, <2>4, QuietStep DEF InCommands
<1>3. CASE pc = "command" /\ reply' = "ok" /\ served' = [served EXCEPT ![i] = @ + 1]
  <2>1. /\ i \in 1 .. Max /\ i \in Indices /\ IsRequest(Commands[i]) /\ InCommands
        /\ served[i] = Messages(Commands[i]) - left - 1
        /\ left \in Nat /\ Messages(Commands[i]) \in 1 .. Files /\ left < Messages(Commands[i])
    <3>1. IsRequest(Commands[i]) /\ InCommands
      BY <1>3 DEF Answer, AwaitsWrite, InCommands
    <3>2. QED
      BY <1>1, <1>3, <3>1, Scenario, SessionAssumption DEF Inv, PhaseInv, TypeOK
  <2>2. /\ served' \in [Indices -> 0 .. Files] /\ served'[i] = Messages(Commands[i]) - left
        /\ \A n \in Indices : n # i => served'[n] = served[n]
    <3>1. served[i] + 1 \in 0 .. Files
      BY <2>1, SessionAssumption
    <3>2. QED
      BY <1>3, <2>1, <3>1 DEF Inv, TypeOK
  <2>3. TypeOK'
    BY <1>1, <1>3, <2>2, ScenarioKept DEF Inv, TypeOK
  <2>4. PhaseInv'
    <3>1. \A n \in Indices : n > i => served'[n] = 0
      BY <2>1, <2>2 DEF Inv, PhaseInv
    <3>2. served'[i] = Messages(Commands[i]) - left - 0
      BY <2>1, <2>2
    <3>3. QED
      BY <1>1, <1>3, <2>1, <3>1, <3>2, ScenarioKept DEF Inv, PhaseInv, Starting, InCommands
  <2>5. EndInv'
    BY <1>1, <1>3 DEF Inv, TypeOK, EndInv, Running, Closing
  <2>6. OutInv'
    BY <1>1, ScenarioKept DEF Inv, OutInv, InCommands
  <2>7. NumberedAlike'
    BY <1>1, ScenarioKept DEF Inv, NumberedAlike, Successor, FirstOf, Line, Commands
  <2>8. TimesAreComplete'
    <3>1. Max <= Len(Commands) /\ Max \in Nat /\ Len(Commands) \in Nat /\ Indices = 1 .. Len(Commands)
      BY <2>1, Scenario DEF Inv, PhaseInv
    <3>2. \A k \in 1 .. Len(out) : out[k].no \in 1 .. Max /\ out[k].no < i
      <4>1. out \in Seq(Lines)
        BY DEF Inv, TypeOK, Lines
      <4>2. \A k \in 1 .. Len(out) : out[k] \in Lines
        BY <4>1, ElementOfSeq
      <4>3. QED
        BY <2>1, <4>2 DEF Inv, OutInv, Lines
    <3>3. \A k \in 1 .. Len(out) : out[k].no \in Indices /\ out[k].no # i
      BY <2>1, <3>1, <3>2
    <3>4. QED
      BY <1>1, <2>2, <3>3, AnswersKept DEF Inv
  <2>9. QED
    BY <2>3, <2>4, <2>5, <2>6, <2>7, <2>8 DEF Inv
<1>4. QED
  BY <1>1, <1>2, <1>3 DEF Answer

LEMMA WrittenStep == ASSUME Inv, Written PROVE Inv'
<1>1. /\ AwaitsWrite /\ reply = "pending" /\ reply' \in {"ok", "error"}
      /\ UNCHANGED <<options, pc, i, seq, left, threw, out, code, server, crashed, served>>
      /\ told' = told \/ (pc = "exitNote" /\ told' = TRUE)
  BY DEF Written, Inv, TypeOK
<1>2. TypeOK'
  <2>1. told' \in BOOLEAN
    BY <1>1 DEF Inv, TypeOK
  <2>2. QED
    BY <1>1, <2>1, ScenarioKept DEF Inv, TypeOK
<1>3. PhaseInv'
  BY <1>1, ScenarioKept DEF AwaitsWrite, Inv, PhaseInv, Starting, InCommands
<1>4. EndInv'
  BY <1>1, ScenarioKept DEF Inv, TypeOK, EndInv, Running, Closing, AllPrinted
<1>5. QED
  BY <1>1, <1>2, <1>3, <1>4, QuietStep DEF InCommands

LEMMA RejectedStep == ASSUME Inv, Rejected PROVE Inv'
<1>1. /\ server = "dead" /\ reply = "pending" /\ reply' = "error"
      /\ UNCHANGED <<options, pc, i, seq, left, threw, out, code, serverVars>>
      /\ Awaiting /\ ~AwaitsWrite
  BY DEF Rejected
<1>2. TypeOK'
  BY <1>1, ScenarioKept DEF serverVars, Inv, TypeOK
<1>3. PhaseInv'
  BY <1>1, ScenarioKept DEF serverVars, Inv, PhaseInv, Starting, InCommands
<1>4. EndInv'
  BY <1>1, ScenarioKept DEF serverVars, Inv, TypeOK, EndInv, Running, Closing, AllPrinted
<1>5. QED
  BY <1>1, <1>2, <1>3, <1>4, QuietStep DEF serverVars, InCommands

LEMMA ServerEndsStep ==
  ASSUME Inv, ServerExits \/ ServerCrashes
  PROVE  Inv'
<1>1. /\ server = "up" /\ server' = "dead" /\ crashed' \in BOOLEAN
      /\ (told => crashed' = crashed) /\ (~told => crashed' = TRUE)
      /\ UNCHANGED <<clientVars, told, served>>
  BY DEF ServerExits, ServerCrashes, Inv, TypeOK
<1>2. TypeOK'
  BY <1>1, ScenarioKept DEF clientVars, Inv, TypeOK
<1>3. PhaseInv'
  BY <1>1, ScenarioKept DEF clientVars, Inv, PhaseInv, Starting, InCommands
<1>4. EndInv'
  BY <1>1, ScenarioKept DEF clientVars, Inv, TypeOK, EndInv, Running, Closing, AllPrinted
<1>5. QED
  BY <1>1, <1>2, <1>3, <1>4, QuietStep DEF clientVars, InCommands

LEMMA Step == Inv /\ [Next]_vars => Inv'
<1> SUFFICES ASSUME Inv, [Next]_vars PROVE Inv'
  OBVIOUS
<1>1. CASE UNCHANGED vars
  <2>1. UNCHANGED <<options, pc, i, seq, left, reply, threw, out, code, server, crashed, told, served>>
    BY <1>1 DEF vars, clientVars, serverVars
  <2>2. TypeOK'
    BY <2>1, ScenarioKept DEF Inv, TypeOK
  <2>3. PhaseInv'
    BY <2>1, ScenarioKept DEF Inv, PhaseInv, Starting, InCommands
  <2>4. EndInv'
    BY <2>1, ScenarioKept DEF Inv, TypeOK, EndInv, Running, Closing, AllPrinted
  <2>5. QED
    BY <2>1, <2>2, <2>3, <2>4, QuietStep DEF InCommands
<1>2. CASE Client
  BY <1>2, GreetedStep, InitializedStep, SleptStep, ReadFilesStep, NextMessageStep,
     CommandDoneStep, MessageFailsStep, ClosingSteps, EndStep DEF Client
<1>3. CASE Next /\ ~Client
  BY <1>1, <1>3, CannotStartStep, LaunchStep, DrainStep, AnswerStep, WrittenStep,
     ClosingSteps, RejectedStep, ServerEndsStep DEF Next, Ended
<1>4. QED
  BY <1>1, <1>2, <1>3

LEMMA Always == Spec => []Inv
  BY InitInv, Step, PTL DEF Spec

(* The types of the client and of the server, for any scenario. *)
THEOREM TypeCorrect == Spec => []TypeOK
<1>1. Inv => TypeOK
  BY DEF Inv
<1>2. QED
  BY <1>1, Always, PTL

(* Whichever client runs, whatever its scenario, and wherever it ends, its lines *)
(* are those of the commands in their order, numbered from 1, none left out.     *)
THEOREM LinesNumberedAlike == Spec => []NumberedAlike
<1>1. Inv => NumberedAlike
  BY DEF Inv
<1>2. QED
  BY <1>1, Always, PTL

(* No time is printed before the server has answered all requests of its command. *)
THEOREM TimesComplete == Spec => []TimesAreComplete
<1>1. Inv => TimesAreComplete
  BY DEF Inv
<1>2. QED
  BY <1>1, Always, PTL

(* An exit code of 0 means that all is printed, or that the server has crashed, *)
(* and that no server is left behind; a client whose main() was rejected ends   *)
(* with 2, unless its server crashed.                                           *)
THEOREM ExitCodeRight == Spec => []ExitCodeIsRight
<1>1. Inv /\ code = 0 => server = "dead" /\ (~crashed => out # <<>>
                          /\ out[Len(out)] = Line(Max, Commands[Max], "time"))
  BY DEF Inv, EndInv, AllPrinted, LastLine
<1>2. Inv /\ pc = "ended" /\ threw => code = 2 \/ crashed
  BY DEF Inv, TypeOK, EndInv, Running
<1>3. QED
  BY <1>1, <1>2, Always, PTL DEF ExitCodeIsRight
=============================================================================
