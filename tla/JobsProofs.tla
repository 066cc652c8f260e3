----------------------------- MODULE JobsProofs -----------------------------
(***************************************************************************)
(* Theorems about Jobs, for any number of targets, any recipes, every way  *)
(* of calling kmk and any number of tokens in the jobserver.               *)
(***************************************************************************)
EXTENDS Jobs, Lemmas

-----------------------------------------------------------------------------
(* Which labels kmk can have to return to.                                 *)

Flat     == {"chain", "reap_before", "wait_slot", "start_waiting", "free_token", "acquire",
             "have_slot", "linear", "reap_round", "die", "exited"}
Words    == Flat \cup {"start_waiting_jobs", "take_waiting", "reap", "reap_started",
                       "start_waiting_job", "started", "start"}
Backs    == {"reap_before", "free_token", "reap_round"}
Bottoms  == {"wait_slot", "start_waiting", "linear", "chain", "die"}

(* Where start_waiting_jobs(), reap_children() and start_waiting_job() are *)
(* called from.                                                            *)
Callers  == {<<b>> : b \in Backs}
Reapers  == {<<b>> : b \in Bottoms} \cup {<<"take_waiting">> \o c : c \in Callers}
Starters == {<<"linear">>} \cup {<<"start_waiting_jobs">> \o c : c \in Callers}

Frames ==
    \/ pc \in Flat /\ stack = <<>>
    \/ pc \in {"start_waiting_jobs", "take_waiting"} /\ stack \in Callers
    \/ pc \in {"reap", "reap_started"} /\ stack \in Reapers
    \/ pc \in {"start_waiting_job", "started"} /\ stack \in Starters
    \/ pc = "start" /\ \E r \in Reapers : stack = <<"reap_started">> \o r
    \/ pc = "start" /\ \E s \in Starters : stack = <<"started">> \o s

(* The procedures kmk is in.                                               *)
Labels == {pc} \cup Range(stack)

LEMMA CallersFacts ==
    ASSUME NEW c \in Callers
    PROVE  /\ c \in Seq(Words) /\ c # <<>>
           /\ Head(c) \in Backs /\ Tail(c) = <<>> /\ Range(c) = {Head(c)}
  <1>1. PICK b \in Backs : c = <<b>>
    BY DEF Callers
  <1>2. b \in Words
    BY DEF Backs, Words, Flat
  <1>3. <<>> \in Seq(Words) /\ Range(<<>>) = {}
    BY EmptySeq DEF Range
  <1>4. <<b>> \o <<>> = <<b>>
    BY <1>2, ConcatEmptySeq
  <1>5. /\ <<b>> \o <<>> \in Seq(Words) /\ <<b>> \o <<>> # <<>>
        /\ Head(<<b>> \o <<>>) = b /\ Tail(<<b>> \o <<>>) = <<>>
        /\ Range(<<b>> \o <<>>) = {b} \cup Range(<<>>)
    BY <1>2, <1>3, PushElements
  <1> QED  BY <1>1, <1>3, <1>4, <1>5

LEMMA ReapersFacts ==
    ASSUME NEW r \in Reapers
    PROVE  /\ r \in Seq(Words) /\ r # <<>>
           /\ \/ Head(r) \in Bottoms /\ Tail(r) = <<>> /\ Range(r) = {Head(r)}
              \/ /\ Head(r) = "take_waiting" /\ Tail(r) \in Callers
                 /\ Range(r) = {"take_waiting", Head(Tail(r))}
  <1>1. CASE r \in {<<b>> : b \in Bottoms}
    <2>1. PICK b \in Bottoms : r = <<b>>
      BY <1>1
    <2>2. b \in Words
      BY DEF Bottoms, Words, Flat
    <2>3. <<>> \in Seq(Words) /\ Range(<<>>) = {}
      BY EmptySeq DEF Range
    <2>4. <<b>> \o <<>> = <<b>>
      BY <2>2, ConcatEmptySeq
    <2>5. /\ <<b>> \o <<>> \in Seq(Words) /\ <<b>> \o <<>> # <<>>
          /\ Head(<<b>> \o <<>>) = b /\ Tail(<<b>> \o <<>>) = <<>>
          /\ Range(<<b>> \o <<>>) = {b} \cup Range(<<>>)
      BY <2>2, <2>3, PushElements
    <2> QED  BY <2>1, <2>3, <2>4, <2>5
  <1>2. CASE r \in {<<"take_waiting">> \o c : c \in Callers}
    <2>1. PICK c \in Callers : r = <<"take_waiting">> \o c
      BY <1>2
    <2>2. "take_waiting" \in Words
      BY DEF Words
    <2>3. c \in Seq(Words) /\ Range(c) = {Head(c)}
      BY CallersFacts
    <2>4. /\ <<"take_waiting">> \o c \in Seq(Words) /\ <<"take_waiting">> \o c # <<>>
          /\ Head(<<"take_waiting">> \o c) = "take_waiting" /\ Tail(<<"take_waiting">> \o c) = c
          /\ Range(<<"take_waiting">> \o c) = {"take_waiting"} \cup Range(c)
      BY <2>2, <2>3, PushElements
    <2> HIDE DEF Callers
    <2> QED  BY <2>1, <2>3, <2>4
  <1> QED  BY <1>1, <1>2 DEF Reapers

LEMMA StartersFacts ==
    ASSUME NEW s \in Starters
    PROVE  /\ s \in Seq(Words) /\ s # <<>>
           /\ \/ Head(s) = "linear" /\ Tail(s) = <<>> /\ Range(s) = {"linear"}
              \/ /\ Head(s) = "start_waiting_jobs" /\ Tail(s) \in Callers
                 /\ Range(s) = {"start_waiting_jobs", Head(Tail(s))}
  <1>1. CASE s = <<"linear">>
    <2>1. "linear" \in Words
      BY DEF Words, Flat
    <2>2. <<>> \in Seq(Words) /\ Range(<<>>) = {}
      BY EmptySeq DEF Range
    <2>3. <<"linear">> \o <<>> = <<"linear">>
      BY <2>1, ConcatEmptySeq
    <2>4. /\ <<"linear">> \o <<>> \in Seq(Words) /\ <<"linear">> \o <<>> # <<>>
          /\ Head(<<"linear">> \o <<>>) = "linear" /\ Tail(<<"linear">> \o <<>>) = <<>>
          /\ Range(<<"linear">> \o <<>>) = {"linear"} \cup Range(<<>>)
      BY <2>1, <2>2, PushElements
    <2> QED  BY <1>1, <2>2, <2>3, <2>4
  <1>2. CASE s \in {<<"start_waiting_jobs">> \o c : c \in Callers}
    <2>1. PICK c \in Callers : s = <<"start_waiting_jobs">> \o c
      BY <1>2
    <2>2. "start_waiting_jobs" \in Words
      BY DEF Words
    <2>3. c \in Seq(Words) /\ Range(c) = {Head(c)}
      BY CallersFacts
    <2>4. /\ <<"start_waiting_jobs">> \o c \in Seq(Words) /\ <<"start_waiting_jobs">> \o c # <<>>
          /\ Head(<<"start_waiting_jobs">> \o c) = "start_waiting_jobs" /\ Tail(<<"start_waiting_jobs">> \o c) = c
          /\ Range(<<"start_waiting_jobs">> \o c) = {"start_waiting_jobs"} \cup Range(c)
      BY <2>2, <2>3, PushElements
    <2> HIDE DEF Callers
    <2> QED  BY <2>1, <2>3, <2>4
  <1> QED  BY <1>1, <1>2 DEF Starters

LEMMA ReaperLabels ==
    ASSUME NEW r \in Reapers
    PROVE  \/ \E b \in Bottoms : Range(r) = {b}
           \/ \E b \in Backs : Range(r) = {"take_waiting", b}
  <1>1. CASE Head(r) \in Bottoms /\ Range(r) = {Head(r)}
    BY <1>1
  <1>2. CASE Tail(r) \in Callers /\ Range(r) = {"take_waiting", Head(Tail(r))}
    <2>1. Head(Tail(r)) \in Backs
      BY <1>2, CallersFacts
    <2> QED  BY <1>2, <2>1
  <1> QED  BY <1>1, <1>2, ReapersFacts

LEMMA StarterLabels ==
    ASSUME NEW s \in Starters
    PROVE  \/ Range(s) = {"linear"}
           \/ \E b \in Backs : Range(s) = {"start_waiting_jobs", b}
  <1>1. CASE Tail(s) \in Callers /\ Range(s) = {"start_waiting_jobs", Head(Tail(s))}
    <2>1. Head(Tail(s)) \in Backs
      BY <1>1, CallersFacts
    <2> QED  BY <1>1, <2>1
  <1> QED  BY <1>1, StartersFacts

(* What is on the stack at each label.                                     *)
LEMMA Shapes ==
    ASSUME Frames
    PROVE  /\ pc \in Words /\ stack \in Seq(Words)
           /\ pc \in Flat => stack = <<>> /\ Range(stack) = {}
           /\ pc \in {"start_waiting_jobs", "take_waiting"} => \E b \in Backs : Range(stack) = {b}
           /\ pc \in {"reap", "reap_started"} =>
                 \/ \E b \in Bottoms : Range(stack) = {b}
                 \/ \E b \in Backs : Range(stack) = {"take_waiting", b}
           /\ pc \in {"start_waiting_job", "started"} =>
                 \/ Range(stack) = {"linear"}
                 \/ \E b \in Backs : Range(stack) = {"start_waiting_jobs", b}
           /\ pc = "start" =>
                 \/ \E b \in Bottoms : Range(stack) = {"reap_started", b}
                 \/ \E b \in Backs : Range(stack) = {"reap_started", "take_waiting", b}
                 \/ Range(stack) = {"started", "linear"}
                 \/ \E b \in Backs : Range(stack) = {"started", "start_waiting_jobs", b}
  <1>1. CASE pc \in Flat /\ stack = <<>>
    <2>1. <<>> \in Seq(Words) /\ Range(<<>>) = {}
      BY EmptySeq DEF Range
    <2> QED  BY <1>1, <2>1 DEF Flat, Words
  <1>2. CASE pc \in {"start_waiting_jobs", "take_waiting"} /\ stack \in Callers
    BY <1>2, CallersFacts DEF Flat, Words
  <1>3. CASE pc \in {"reap", "reap_started"} /\ stack \in Reapers
    <2>1. \/ \E b \in Bottoms : Range(stack) = {b}
          \/ \E b \in Backs : Range(stack) = {"take_waiting", b}
      BY <1>3, ReaperLabels
    <2>2. pc \in Words /\ stack \in Seq(Words) /\ pc \notin Flat
      BY <1>3, ReapersFacts DEF Flat, Words
    <2> QED  BY <1>3, <2>1, <2>2
  <1>4. CASE pc \in {"start_waiting_job", "started"} /\ stack \in Starters
    <2>1. \/ Range(stack) = {"linear"}
          \/ \E b \in Backs : Range(stack) = {"start_waiting_jobs", b}
      BY <1>4, StarterLabels
    <2>2. pc \in Words /\ stack \in Seq(Words) /\ pc \notin Flat
      BY <1>4, StartersFacts DEF Flat, Words
    <2> QED  BY <1>4, <2>1, <2>2
  <1>5. CASE pc = "start" /\ \E r \in Reapers : stack = <<"reap_started">> \o r
    <2>1. PICK r \in Reapers : stack = <<"reap_started">> \o r
      BY <1>5
    <2>2. "reap_started" \in Words
      BY DEF Words
    <2>3. stack \in Seq(Words) /\ Range(stack) = {"reap_started"} \cup Range(r)
      BY <2>1, <2>2, ReapersFacts, PushElements
    <2>4. \/ \E b \in Bottoms : Range(stack) = {"reap_started", b}
          \/ \E b \in Backs : Range(stack) = {"reap_started", "take_waiting", b}
      <3>1. CASE \E b \in Bottoms : Range(r) = {b}
        BY <2>3, <3>1
      <3>2. CASE \E b \in Backs : Range(r) = {"take_waiting", b}
        BY <2>3, <3>2
      <3> QED  BY <3>1, <3>2, ReaperLabels
    <2>5. pc \in Words /\ pc \notin Flat
      BY <1>5 DEF Flat, Words
    <2> QED  BY <1>5, <2>3, <2>4, <2>5
  <1>6. CASE pc = "start" /\ \E s \in Starters : stack = <<"started">> \o s
    <2>1. PICK s \in Starters : stack = <<"started">> \o s
      BY <1>6
    <2>2. "started" \in Words
      BY DEF Words
    <2>3. stack \in Seq(Words) /\ Range(stack) = {"started"} \cup Range(s)
      BY <2>1, <2>2, StartersFacts, PushElements
    <2>4. \/ Range(stack) = {"started", "linear"}
          \/ \E b \in Backs : Range(stack) = {"started", "start_waiting_jobs", b}
      <3>1. CASE Range(s) = {"linear"}
        BY <2>3, <3>1
      <3>2. CASE \E b \in Backs : Range(s) = {"start_waiting_jobs", b}
        BY <2>3, <3>2
      <3> QED  BY <3>1, <3>2, StarterLabels
    <2>5. pc \in Words /\ pc \notin Flat
      BY <1>6 DEF Flat, Words
    <2> QED  BY <1>6, <2>3, <2>4, <2>5
  <1> QED  BY <1>1, <1>2, <1>3, <1>4, <1>5, <1>6 DEF Frames

(* Return, from the label l, pops the stack.                               *)
LEMMA ReturnFrames ==
    ASSUME Frames, Return, pc \in {"start", "started", "reap", "start_waiting_jobs"}
    PROVE  /\ Frames' /\ Labels' = Range(stack)
           /\ pc = "start" => pc' \in {"started", "reap_started"}
           /\ pc = "started" => pc' \in {"linear", "start_waiting_jobs"}
           /\ pc = "reap" => pc' \in Bottoms \cup {"take_waiting"}
           /\ pc = "start_waiting_jobs" => pc' \in Backs
  <1>1. stack \in Seq(Words) /\ stack # <<>>
    <2>1. stack \in Seq(Words)
      BY Shapes
    <2>2. Range(stack) # {}
      BY Shapes
    <2>3. Range(<<>>) = {}
      BY DEF Range
    <2> QED  BY <2>1, <2>2, <2>3
  <1>2. Labels' = Range(stack)
    BY <1>1, TailElements DEF Return, Labels
  <1>3. /\ Frames'
        /\ pc = "start" => pc' \in {"started", "reap_started"}
        /\ pc = "started" => pc' \in {"linear", "start_waiting_jobs"}
        /\ pc = "reap" => pc' \in Bottoms \cup {"take_waiting"}
        /\ pc = "start_waiting_jobs" => pc' \in Backs
    <2>1. CASE pc = "start_waiting_jobs" /\ stack \in Callers
      BY <2>1, CallersFacts DEF Return, Frames, Backs, Flat
    <2>2. CASE pc = "reap" /\ stack \in Reapers
      BY <2>2, ReapersFacts DEF Return, Frames, Bottoms, Flat
    <2>3. CASE pc = "started" /\ stack \in Starters
      BY <2>3, StartersFacts DEF Return, Frames, Flat
    <2>4. CASE pc = "start" /\ \E r \in Reapers : stack = <<"reap_started">> \o r
      <3>1. PICK r \in Reapers : stack = <<"reap_started">> \o r
        BY <2>4
      <3>2. Head(stack) = "reap_started" /\ Tail(stack) = r
        BY <3>1, ReapersFacts, PushElements DEF Words
      <3> QED  BY <2>4, <3>2 DEF Return, Frames
    <2>5. CASE pc = "start" /\ \E s \in Starters : stack = <<"started">> \o s
      <3>1. PICK s \in Starters : stack = <<"started">> \o s
        BY <2>5
      <3>2. Head(stack) = "started" /\ Tail(stack) = s
        BY <3>1, StartersFacts, PushElements DEF Words
      <3> QED  BY <2>5, <3>2 DEF Return, Frames
    <2> QED  BY <2>1, <2>2, <2>3, <2>4, <2>5 DEF Frames, Flat
  <1> QED  BY <1>2, <1>3

(* A call pushes the label it comes back to.                               *)
LEMMA CallFrames ==
    ASSUME Frames, NEW label, NEW back \in Words, Call(label, back),
           \/ label = "reap" /\ pc \in Flat /\ back \in Bottoms
           \/ label = "reap" /\ pc = "start_waiting_jobs" /\ back = "take_waiting"
           \/ label = "start_waiting_jobs" /\ pc \in Flat /\ back \in Backs
           \/ label = "start_waiting_job" /\ pc \in Flat /\ back = "linear"
           \/ label = "start_waiting_job" /\ pc = "take_waiting" /\ back = "start_waiting_jobs"
           \/ label = "start" /\ pc = "start_waiting_job" /\ back = "started"
           \/ label = "start" /\ pc = "reap" /\ back = "reap_started"
    PROVE  Frames' /\ Labels' = {label, back} \cup Range(stack)
  <1>1. stack \in Seq(Words)
    BY Shapes
  <1>2. Labels' = {label, back} \cup Range(stack)
    BY <1>1, PushElements DEF Call, Labels
  <1>3. <<back>> \o <<>> = <<back>>
    BY ConcatEmptySeq
  <1>4. CASE pc \in Flat
    <2>1. stack' = <<back>>
      BY <1>3, <1>4, Shapes DEF Call
    <2> QED  BY <1>2, <1>4, <2>1 DEF Call, Frames, Callers, Reapers, Starters, Flat
  <1>5. CASE pc \in {"start_waiting_jobs", "take_waiting"}
    <2>1. stack \in Callers
      BY <1>5 DEF Frames, Flat
    <2> QED  BY <1>2, <1>5, <2>1 DEF Call, Frames, Reapers, Starters, Flat
  <1>6. CASE pc = "start_waiting_job"
    <2>1. stack \in Starters
      BY <1>6 DEF Frames, Flat
    <2> QED  BY <1>2, <1>6, <2>1 DEF Call, Frames, Flat
  <1>7. CASE pc = "reap"
    <2>1. stack \in Reapers
      BY <1>7 DEF Frames, Flat
    <2> QED  BY <1>2, <1>7, <2>1 DEF Call, Frames, Flat
  <1> QED  BY <1>4, <1>5, <1>6, <1>7

LEMMA GotoFrames ==
    ASSUME Frames, NEW label \in Flat, Goto(label), pc \in Flat
    PROVE  Frames' /\ Labels' = {label} /\ Labels = {pc}
  <1>1. stack = <<>> /\ Range(stack) = {}
    BY Shapes
  <1> QED  BY <1>1 DEF Goto, Frames, Labels

-----------------------------------------------------------------------------
(* The inductive invariant.                                                *)

OnChain    == Range(children) \cup Range(waitingJobs)

(* start_waiting_job() has a job that is on no chain; reap_children() is   *)
(* starting the next line of a child; new_job() has a FILE it has not yet  *)
(* made a job of.                                                          *)
Handling   == "start_waiting_job" \in Labels \/ "started" \in Labels
Hand       == IF Handling THEN {cur} ELSE {}
Restarting == "reap_started" \in Labels
Coming     == \/ "reap_before" \in Labels \/ "wait_slot" \in Labels \/ "start_waiting" \in Labels
              \/ "free_token" \in Labels \/ "acquire" \in Labels \/ "have_slot" \in Labels
Over       == "die" \in Labels \/ "exited" \in Labels

(* The types; that a pipe holds no more than the top make wrote into it    *)
(* follows from Conserved.                                                 *)
TypedFiles ==
    /\ invocation \in Invocations
    /\ recipe \in Makefiles /\ alone \in SUBSET Targets
    /\ commandState \in [Targets -> {"not_started", "running", "finished"}]
    /\ updateStatus \in [Targets -> {"none", "success", "failed", "question"}]
    /\ line \in [Targets -> Nat]
    /\ pid \in [Targets -> Procs \cup {NoPid, FakePid}]
    /\ hasStatus \in [Targets -> BOOLEAN]

TypedState ==
    /\ children \in Seq(Targets) /\ waitingJobs \in Seq(Targets)
    /\ jobSlotsUsed \in Nat /\ jobserverTokens \in Nat
    /\ notParallel \in Int
    /\ pool \in Nat /\ others \in Nat
    /\ exit \in [Procs -> {"none", "running"} \cup Results] /\ waited \subseteq Procs
    /\ cur \in Targets \cup {NoTarget} /\ new \in Targets \cup {NoTarget}
    /\ block \in BOOLEAN /\ dying \in BOOLEAN /\ status \in 0 .. 2

Typed == TypedFiles /\ TypedState

(* A job has commands.                                                     *)
Recipes ==
    \A t \in Targets :
        /\ line[t] \in DOMAIN recipe[t] \/ recipe[t] = <<>>
        /\ recipe[t] = <<>> => commandState[t] = "finished" /\ t \notin OnChain \cup Hand

(* Every job is on one chain, once, or in hand, and has a token.           *)
Chains ==
    /\ IsInjective(children) /\ IsInjective(waitingJobs)
    /\ Range(children) \cap Range(waitingJobs) = {}
    /\ Handling => cur \in Targets \ OnChain
    /\ jobSlotsUsed = Len(children)
    /\ ~dying => jobserverTokens = Len(children) + Len(waitingJobs) + One(Handling)
    /\ dying /\ pc # "exited" => jobserverTokens >= Len(children) + Len(waitingJobs)

(* What the command state of a file says of its job.                       *)
States ==
    /\ \A t \in Range(waitingJobs) : commandState[t] = "running"
    /\ \A t \in Range(children) : \/ commandState[t] = "running"
                                  \/ Restarting /\ t = cur /\ commandState[t] = "finished"
    /\ \A t \in Targets : commandState[t] = "running" => t \in OnChain \cup Hand
    /\ Restarting => cur \in Range(children)
    /\ Handling /\ "linear" \notin Labels => commandState[cur] # "not_started"
    /\ Coming => new \in Targets /\ commandState[new] = "not_started"
    /\ pc = "start_waiting_job" \/ pc = "start" => commandState[cur] # "finished"

(* What has been seen of the chains before kmk went where it is.           *)
Seen ==
    /\ "take_waiting" \in Labels => waitingJobs # <<>>
    /\ pc = "free_token" => waitingJobs = <<>> \/ children # <<>>
    /\ pc = "acquire" => children # <<>>
    /\ "start_waiting" \in Labels \/ "free_token" \in Labels \/ "acquire" \in Labels
          => Mode = "jobserver"

Ends ==
    /\ dying <=> Over
    /\ dying /\ status = 0 => children = <<>> /\ waitingJobs = <<>> /\ jobserverTokens = 0
    /\ pc = "exited" /\ status # 1 /\ Mode = "jobserver" => jobserverTokens = 0

Conserved ==
    /\ Mode # "jobserver" => pool = Tokens /\ others = 0
    /\ Mode = "jobserver" =>
          pool + others + (IF jobserverTokens = 0 THEN 0
                           ELSE jobserverTokens - One(pc # "have_slot")) = Tokens

Core == Frames /\ Recipes /\ Chains /\ States /\ Seen /\ Ends /\ Conserved
IInv == Typed /\ Core

(* What is given never changes; the assumptions on it.                     *)
LEMMA Given ==
    ASSUME TypedFiles
    PROVE  /\ recipe \in [Targets -> Seq(Lines)]
           /\ \A t \in Targets : /\ recipe[t] \in Seq(Lines) /\ Len(recipe[t]) \in 0 .. MaxLines
                                 /\ DOMAIN recipe[t] = 1 .. Len(recipe[t])
                                 /\ recipe[t] # <<>> => 1 \in DOMAIN recipe[t]
           /\ Mode \in Modes /\ Tokens \in Nat /\ MaxLines \in Nat
           /\ {KeepGoing, Question, LoadLimit, ForkFails} \subseteq BOOLEAN
           /\ IsFiniteSet(Targets)
  <1>1. /\ Makefiles \subseteq [Targets -> Seq(Lines)]
        /\ \A m \in Makefiles : \A t \in Targets : Len(m[t]) <= MaxLines
        /\ Mode \in Modes /\ Tokens \in Nat /\ MaxLines \in Nat /\ IsFiniteSet(Targets)
        /\ {KeepGoing, Question, LoadLimit, ForkFails} \subseteq BOOLEAN
    BY JobsAssumption DEF TypedFiles, Makefiles, Mode, Tokens, KeepGoing, Question, LoadLimit,
                          ForkFails
  <1>2. recipe \in [Targets -> Seq(Lines)] /\ \A t \in Targets : Len(recipe[t]) <= MaxLines
    BY <1>1 DEF TypedFiles
  <1>3. ASSUME NEW t \in Targets
        PROVE  /\ recipe[t] \in Seq(Lines) /\ Len(recipe[t]) \in 0 .. MaxLines
               /\ DOMAIN recipe[t] = 1 .. Len(recipe[t])
               /\ recipe[t] # <<>> => 1 \in DOMAIN recipe[t]
    <2>1. recipe[t] \in Seq(Lines)
      BY <1>2
    <2>2. Len(recipe[t]) \in Nat /\ DOMAIN recipe[t] = 1 .. Len(recipe[t])
          /\ (recipe[t] # <<>> => Len(recipe[t]) \in Nat \ {0})
      BY <2>1, LenProperties, EmptySeq
    <2> QED  BY <1>1, <1>2, <2>1, <2>2
  <1> QED  BY <1>1, <1>2, <1>3

LEMMA InitInv == Init => IInv
  <1> SUFFICES ASSUME Init PROVE IInv
    OBVIOUS
  <1>1. <<>> \in Seq(Targets) /\ Range(<<>>) = {} /\ Len(<<>>) = 0 /\ IsInjective(<<>>)
    BY EmptySeq DEF Range, IsInjective
  <1>2. TypedFiles
    BY DEF Init, TypedFiles
  <1>3. Typed
    <2>1. Tokens \in Nat
      BY <1>2, Given
    <2>2. exit \in [Procs -> {"none", "running"} \cup Results] /\ waited \subseteq Procs
      BY DEF Init
    <2>3. notParallel \in Int /\ status \in 0 .. 2
      <3>1. notParallel = 0 \/ notParallel = -1
        BY DEF Init
      <3> QED  BY <3>1 DEF Init
    <2>4. block \in BOOLEAN /\ dying \in BOOLEAN
      BY Zenon DEF Init
    <2> QED  BY <1>1, <1>2, <2>1, <2>2, <2>3, <2>4 DEF Init, Typed, TypedState
  <1>4. Labels = {"chain"} /\ Frames
    BY <1>1 DEF Init, Labels, Frames, Flat
  <1>5. ~Handling /\ ~Restarting /\ ~Coming /\ ~Over /\ OnChain = {} /\ Hand = {}
    BY <1>1, <1>4 DEF Init, Handling, Restarting, Coming, Over, OnChain, Hand
  <1>6. Recipes
    BY <1>2, <1>5, Given DEF Init, Recipes
  <1>7. Chains /\ States /\ Seen
    BY <1>1, <1>4, <1>5 DEF Init, Chains, States, Seen, One
  <1>8. Ends /\ Conserved
    BY <1>1, <1>2, <1>5, Given DEF Init, Ends, Conserved
  <1> QED  BY <1>3, <1>4, <1>6, <1>7, <1>8 DEF IInv, Core

-----------------------------------------------------------------------------
(* The operators of the model.                                             *)

LEMMA LineFacts ==
    ASSUME TypedFiles, Recipes, NEW t \in Targets, recipe[t] # <<>>
    PROVE  /\ line[t] \in 1 .. Len(recipe[t]) /\ Len(recipe[t]) \in 0 .. MaxLines
           /\ <<t, line[t]>> \in Procs /\ Line(t) \in Lines
  <1>1. /\ recipe[t] \in Seq(Lines) /\ Len(recipe[t]) \in 0 .. MaxLines
        /\ DOMAIN recipe[t] = 1 .. Len(recipe[t]) /\ MaxLines \in Nat
    BY Given
  <1>2. line[t] \in 1 .. Len(recipe[t])
    BY <1>1 DEF Recipes
  <1>3. line[t] \in 1 .. MaxLines
    BY <1>1, <1>2
  <1>4. Line(t) \in Lines
    BY <1>1, <1>2, ElementOfSeq DEF Line
  <1> QED  BY <1>1, <1>2, <1>3, <1>4 DEF Procs

(* start_job_command() works for a job in hand or for a child.             *)
LEMMA StartFacts ==
    ASSUME IInv, pc = "start"
    PROVE  /\ cur \in Targets /\ recipe[cur] # <<>> /\ commandState[cur] \in {"not_started", "running"}
           /\ \/ Handling /\ ~Restarting /\ "started" \in Range(stack) /\ cur \notin OnChain
              \/ Restarting /\ ~Handling /\ cur \in Range(children)
  <1>1. Labels = {"start"} \cup Range(stack)
    BY DEF Labels
  <1>2. \/ Handling /\ ~Restarting /\ "started" \in Range(stack)
        \/ Restarting /\ ~Handling
    BY <1>1, Shapes DEF IInv, Core, Handling, Restarting, Bottoms, Backs
  <1>3. Range(children) \subseteq Targets
    BY RangeOfSeq DEF IInv, Typed, TypedState
  <1>4. cur \in Targets /\ (Handling => cur \notin OnChain) /\ (Restarting => cur \in Range(children))
    BY <1>2, <1>3 DEF IInv, Core, Chains, States
  <1>5. recipe[cur] # <<>>
    BY <1>2, <1>4 DEF IInv, Core, Recipes, Hand, OnChain
  <1>6. commandState[cur] \in {"not_started", "running"}
    BY <1>4 DEF IInv, Core, States, Typed, TypedFiles
  <1> QED  BY <1>2, <1>4, <1>5, <1>6

LEMMA ChildOfFacts ==
    ASSUME TypedState, NEW p, Matching(p) # {}
    PROVE  ChildOf(p) \in Range(children) /\ pid[ChildOf(p)] = p
  <1>1. Matching(p) \subseteq Nat /\ DOMAIN children = 1 .. Len(children)
    BY LenProperties DEF TypedState, Matching
  <1>2. PICK n \in Matching(p) : \A j \in Matching(p) : n <= j
    BY <1>1, Least
  <1>3. (CHOOSE i \in Matching(p) : \A j \in Matching(p) : i <= j) \in Matching(p)
    BY <1>2
  <1> QED  BY <1>3 DEF Matching, ChildOf, Range

LEMMA CompletedFacts ==
    ASSUME TypedState, Completed # {}
    PROVE  /\ CompletedChild \in Range(children) /\ hasStatus[CompletedChild]
           /\ Matching(pid[CompletedChild]) # {}
  <1>1. Completed \subseteq 1 .. Len(children) /\ Len(children) \in Nat
    BY LenProperties DEF TypedState, Completed
  <1>2. PICK n \in Completed : \A j \in Completed : j <= n
    BY <1>1, Greatest
  <1> DEFINE k == CHOOSE i \in Completed : \A j \in Completed : j <= i
  <1>3. k \in Completed
    BY <1>2
  <1>4. k \in DOMAIN children /\ CompletedChild = children[k] /\ hasStatus[children[k]]
    BY <1>3 DEF Completed, CompletedChild
  <1> HIDE DEF k
  <1>5. k \in Matching(pid[CompletedChild])
    BY <1>4 DEF Matching
  <1> QED  BY <1>4, <1>5 DEF Range

(* FinishChild takes the child, and nothing else, out of the chain.        *)
LEMMA FinishedChild ==
    ASSUME TypedState, Chains, NEW c \in Range(children), NEW s, NEW f, FinishChild(c, s, f)
    PROVE  /\ c \in Targets /\ c \notin Range(waitingJobs)
           /\ children' \in Seq(Targets) /\ Len(children') = Len(children) - 1
           /\ Len(children) \in Nat \ {0} /\ Len(waitingJobs) \in Nat
           /\ IsInjective(children') /\ Range(children') = Range(children) \ {c}
           /\ jobSlotsUsed' = Len(children')
  <1>1. /\ children \in Seq(Targets) /\ waitingJobs \in Seq(Targets)
        /\ IsInjective(children) /\ jobSlotsUsed = Len(children)
        /\ Range(children) \cap Range(waitingJobs) = {}
    BY DEF TypedState, Chains
  <1>2. DOMAIN children = 1 .. Len(children) /\ Len(children) \in Nat /\ Len(waitingJobs) \in Nat
    BY <1>1, LenProperties
  <1> DEFINE i == CHOOSE i \in DOMAIN children : children[i] = c
  <1>3. i \in 1 .. Len(children) /\ children[i] = c
    <2>1. \E k \in DOMAIN children : children[k] = c
      BY DEF Range
    <2> QED  BY <1>2, <2>1
  <1>4. children' = SubSeq(children, 1, i - 1) \o SubSeq(children, i + 1, Len(children))
    BY DEF FinishChild, Unlinked
  <1> HIDE DEF i
  <1>5. /\ children' \in Seq(Targets) /\ Len(children') = Len(children) - 1
        /\ Range(children') \subseteq Range(children)
        /\ Range(children) \subseteq Range(children') \cup {children[i]}
        /\ IsInjective(children') /\ children[i] \notin Range(children')
    BY <1>1, <1>3, <1>4, CutElements
  <1>6. Len(children) > 0 /\ jobSlotsUsed' = Len(children) - 1
    BY <1>1, <1>2, <1>3 DEF FinishChild, One
  <1>7. c \in Targets
    BY <1>1, RangeOfSeq
  <1> QED  BY <1>1, <1>2, <1>3, <1>5, <1>6, <1>7

-----------------------------------------------------------------------------
(* Type correctness of a step.                                             *)

LEMMA NoticeFinishedType ==
    ASSUME TypedFiles, notParallel \in Int, NEW c \in Targets,
           NEW s \in {"none", "success", "failed", "question"}, NoticeFinished(c, s)
    PROVE  /\ commandState' \in [Targets -> {"not_started", "running", "finished"}]
           /\ updateStatus' \in [Targets -> {"none", "success", "failed", "question"}]
           /\ notParallel' \in Int
  <1>1. notParallel' \in Int
    BY DEF NoticeFinished, One
  <1> QED  BY <1>1 DEF NoticeFinished, TypedFiles

LEMMA NextCommandType ==
    ASSUME TypedFiles, Recipes, notParallel \in Int, cur \in Targets, recipe[cur] # <<>>, NextCommand
    PROVE  /\ updateStatus' \in [Targets -> {"none", "success", "failed", "question"}]
           /\ notParallel' \in Int
           /\ line' \in [Targets -> Nat]
  <1>1. CASE line[cur] < Len(recipe[cur])
    <2>1. line[cur] + 1 \in Nat
      BY DEF TypedFiles
    <2> QED  BY <1>1, <2>1 DEF NextCommand, TypedFiles
  <1>2. CASE ~(line[cur] < Len(recipe[cur]))
    <2>1. /\ updateStatus' = [updateStatus EXCEPT ![cur] = "success"]
          /\ notParallel' = notParallel - One(cur \in alone) /\ line' = line
      BY <1>2 DEF NextCommand
    <2>2. notParallel' \in Int
      BY <2>1 DEF One
    <2> QED  BY <2>1, <2>2 DEF TypedFiles
  <1> QED  BY <1>1, <1>2

LEMMA StartType ==
    ASSUME IInv, StartJobCommand
    PROVE  Typed'
  <1>1. /\ pc = "start"
        /\ UNCHANGED <<given, chains, tokens, locals>>
    BY DEF StartJobCommand, StartEmpty, StartQuestion, StartProcess, StartForkFails,
           StartBuiltinOk, StartBuiltinFails, Starting
  <1>2. /\ TypedFiles /\ TypedState /\ Recipes /\ notParallel \in Int
        /\ cur \in Targets /\ recipe[cur] # <<>>
    BY <1>1, StartFacts DEF IInv, Core, Typed, TypedState
  <1>3. <<cur, line[cur]>> \in Procs
    BY <1>2, LineFacts
  <1>4. SUFFICES /\ commandState' \in [Targets -> {"not_started", "running", "finished"}]
                 /\ updateStatus' \in [Targets -> {"none", "success", "failed", "question"}]
                 /\ line' \in [Targets -> Nat]
                 /\ pid' \in [Targets -> Procs \cup {NoPid, FakePid}]
                 /\ hasStatus' \in [Targets -> BOOLEAN]
                 /\ notParallel' \in Int
                 /\ exit' \in [Procs -> {"none", "running"} \cup Results] /\ waited' \subseteq Procs
    <2>1. Makefiles' = Makefiles /\ Invocations = Invocations
      BY <1>1 DEF given, Makefiles
    <2> QED  BY <1>1, <1>2, <2>1 DEF Typed, TypedFiles, TypedState, given, chains, tokens, locals
  <1>5. /\ commandState \in [Targets -> {"not_started", "running", "finished"}]
        /\ updateStatus \in [Targets -> {"none", "success", "failed", "question"}]
        /\ line \in [Targets -> Nat]
        /\ pid \in [Targets -> Procs \cup {NoPid, FakePid}]
        /\ hasStatus \in [Targets -> BOOLEAN]
        /\ exit \in [Procs -> {"none", "running"} \cup Results] /\ waited \subseteq Procs
    BY <1>2 DEF TypedFiles, TypedState
  <1>6. CASE StartEmpty
    <2>1. commandState' \in [Targets -> {"not_started", "running", "finished"}]
      BY <1>2, <1>5, <1>6 DEF StartEmpty
    <2> QED  BY <1>2, <1>5, <1>6, <2>1, NextCommandType DEF StartEmpty, system
  <1>7. CASE StartQuestion
    BY <1>2, <1>5, <1>7, NoticeFinishedType DEF StartQuestion, child, system
  <1>8. CASE StartProcess
    <2>1. /\ commandState' \in [Targets -> {"not_started", "running", "finished"}]
          /\ pid' \in [Targets -> Procs \cup {NoPid, FakePid}]
      BY <1>3, <1>5, <1>8 DEF StartProcess
    <2>2. exit' \in [Procs -> {"none", "running"} \cup Results]
      BY <1>3, <1>5, <1>8 DEF StartProcess
    <2> QED  BY <1>2, <1>5, <1>8, <2>1, <2>2 DEF StartProcess
  <1>9. CASE StartForkFails
    BY <1>2, <1>5, <1>9, NoticeFinishedType DEF StartForkFails, child, system
  <1>10. CASE StartBuiltinOk
    <2>1. /\ commandState' \in [Targets -> {"not_started", "running", "finished"}]
          /\ pid' \in [Targets -> Procs \cup {NoPid, FakePid}]
      BY <1>5, <1>10 DEF StartBuiltinOk
    <2>2. exit' \in [Procs -> {"none", "running"} \cup Results] /\ waited' \subseteq Procs
      BY <1>3, <1>5, <1>10 DEF StartBuiltinOk, Results
    <2> QED  BY <1>2, <1>5, <1>10, <2>1, <2>2, NextCommandType DEF StartBuiltinOk
  <1>11. CASE StartBuiltinFails
    <2>1. /\ commandState' \in [Targets -> {"not_started", "running", "finished"}]
          /\ pid' \in [Targets -> Procs \cup {NoPid, FakePid}]
          /\ hasStatus' \in [Targets -> BOOLEAN]
      BY <1>5, <1>11 DEF StartBuiltinFails
    <2>2. exit' \in [Procs -> {"none", "running"} \cup Results] /\ waited' \subseteq Procs
      BY <1>3, <1>5, <1>11 DEF StartBuiltinFails, Results
    <2> QED  BY <1>2, <1>5, <1>11, <2>1, <2>2 DEF StartBuiltinFails
  <1> QED  BY <1>6, <1>7, <1>8, <1>9, <1>10, <1>11 DEF StartJobCommand

(* What a finished child leaves of the types.                              *)
LEMMA FinishType ==
    ASSUME IInv, NEW c \in Range(children), NEW s \in {"none", "success", "failed", "question"},
           NEW f \in 0 .. 2, FinishChild(c, s, f), pc # "exited"
    PROVE  TypedFiles' /\ (exit' \in [Procs -> {"none", "running"} \cup Results]
                              /\ waited' \subseteq Procs => TypedState')
  <1>1. TypedFiles /\ TypedState /\ Chains /\ notParallel \in Int
    BY DEF IInv, Core, Typed, TypedState
  <1>2. /\ c \in Targets /\ children' \in Seq(Targets) /\ Len(children') \in Nat
        /\ jobSlotsUsed' = Len(children') /\ Len(children) \in Nat \ {0} /\ Len(waitingJobs) \in Nat
    BY <1>1, FinishedChild
  <1>3. NoticeFinished(c, s) /\ UNCHANGED <<given, child, waitingJobs, cur, new>>
    BY DEF FinishChild
  <1>4. /\ commandState' \in [Targets -> {"not_started", "running", "finished"}]
        /\ updateStatus' \in [Targets -> {"none", "success", "failed", "question"}]
        /\ notParallel' \in Int
    BY <1>1, <1>2, <1>3, NoticeFinishedType
  <1>5. TypedFiles'
    BY <1>1, <1>3, <1>4 DEF TypedFiles, given, child, Makefiles
  <1>6. CASE f # 0 /\ ~dying /\ ~KeepGoing
    <2>1. UNCHANGED <<tokens, block>> /\ dying' = TRUE /\ status' = f
      BY <1>6 DEF FinishChild
    <2> QED  BY <1>1, <1>2, <1>3, <1>4, <1>5, <2>1 DEF TypedState, tokens
  <1>7. CASE ~(f # 0 /\ ~dying /\ ~KeepGoing)
    <2>1. FreeChild /\ block' = FALSE /\ UNCHANGED <<dying, status>>
      BY <1>7 DEF FinishChild
    <2>2. jobserverTokens \in Nat \ {0}
      <3>1. Len(children) > 0 /\ Len(waitingJobs) >= 0 /\ jobserverTokens \in Nat
        BY <1>1, <1>2 DEF TypedState
      <3>2. CASE dying
        BY <1>1, <1>2, <3>1, <3>2 DEF Chains
      <3>3. CASE ~dying
        BY <1>1, <1>2, <3>1, <3>3 DEF Chains, One
      <3> QED  BY <3>2, <3>3
    <2>3. jobserverTokens' \in Nat /\ pool' \in Nat /\ others' \in Nat
      BY <1>1, <2>1, <2>2 DEF FreeChild, One, TypedState
    <2> QED  BY <1>1, <1>2, <1>3, <1>4, <1>5, <2>1, <2>3 DEF TypedState
  <1> QED  BY <1>6, <1>7

LEMMA HandleExitType ==
    ASSUME IInv, NEW c \in Range(children), NEW e, HandleExit(c, e), pc = "reap",
           exit' \in [Procs -> {"none", "running"} \cup Results], waited' \subseteq Procs
    PROVE  Typed'
  <1>1. Failure(c, e) \in 0 .. 2
    BY DEF Failure
  <1>2. CASE FinishChild(c, IF Failure(c, e) = 2 THEN "failed" ELSE "question", Failure(c, e))
    BY <1>1, <1>2, FinishType DEF Typed
  <1>3. CASE FinishChild(c, "success", 0)
    BY <1>3, FinishType DEF Typed
  <1>4. CASE /\ line' = [line EXCEPT ![c] = @ + 1]
             /\ cur' = c
             /\ UNCHANGED <<given, files, pid, hasStatus, chains, tokens, notParallel,
                            new, block, dying, status>>
    <2>1. TypedFiles /\ TypedState /\ c \in Targets
      BY RangeOfSeq DEF IInv, Typed, TypedState
    <2>2. line[c] + 1 \in Nat
      BY <2>1 DEF TypedFiles
    <2>3. TypedFiles'
      BY <1>4, <2>1, <2>2 DEF TypedFiles, given, files, Makefiles
    <2>4. TypedState'
      BY <1>4, <2>1 DEF TypedState, chains, tokens
    <2> QED  BY <2>3, <2>4 DEF Typed
  <1> QED  BY <1>2, <1>3, <1>4 DEF HandleExit

LEMMA ReapType ==
    ASSUME IInv, ReapChildren
    PROVE  Typed'
  <1>1. TypedFiles /\ TypedState /\ Frames /\ States
    BY DEF IInv, Core, Typed
  <1>2. exit \in [Procs -> {"none", "running"} \cup Results] /\ waited \subseteq Procs
    BY <1>1 DEF TypedState
  <1>3. CASE ReapReturns \/ ReapNothing
    BY <1>1, <1>3 DEF ReapReturns, ReapNothing, Typed, TypedFiles, TypedState, given, files, child,
          chains, tokens, system, locals, Makefiles
  <1>4. CASE ReapCompleted
    <2>1. pid[CompletedChild] = pid[CompletedChild] /\ ChildOf(pid[CompletedChild]) \in Range(children)
      BY <1>1, <1>4, CompletedFacts, ChildOfFacts DEF ReapCompleted
    <2> QED  BY <1>2, <1>4, <2>1, HandleExitType DEF ReapCompleted, Reaping, system
  <1>5. ASSUME NEW p \in Procs, ReapProcess(p) PROVE Typed'
    <2>1. ChildOf(p) \in Range(children)
      BY <1>1, <1>5, ChildOfFacts DEF ReapProcess
    <2>2. waited' \subseteq Procs /\ exit' = exit
      BY <1>2, <1>5 DEF ReapProcess
    <2> QED  BY <1>2, <1>5, <2>1, <2>2, HandleExitType DEF ReapProcess, Reaping
  <1>6. ASSUME NEW p \in Procs, ReapUnknown(p) PROVE Typed'
    <2>1. waited' \subseteq Procs
      BY <1>2, <1>6 DEF ReapUnknown
    <2> QED  BY <1>1, <1>6, <2>1 DEF ReapUnknown, Typed, TypedFiles, TypedState, given, files, child,
               chains, tokens, locals, Makefiles
  <1>7. CASE ReapStarted
    <2>1. CASE FinishChild(cur, updateStatus[cur], 0)
      <3>1. cur \in Range(children) /\ cur \in Targets
        <4>1. pc = "reap_started"
          BY <1>7 DEF ReapStarted
        <4>2. cur \in Range(children)
          BY <1>1, <4>1 DEF States, Restarting, Labels
        <4> QED  BY <1>1, <4>2, RangeOfSeq DEF TypedState
      <3>2. updateStatus[cur] \in {"none", "success", "failed", "question"}
        BY <1>1, <3>1 DEF TypedFiles
      <3>3. pc # "exited"
        BY <1>7 DEF ReapStarted
      <3> QED  BY <1>2, <1>7, <2>1, <3>1, <3>2, <3>3, FinishType DEF ReapStarted, system, Typed
    <2>2. CASE UNCHANGED <<given, files, child, chains, tokens, notParallel, locals>>
      BY <1>1, <1>7, <2>2 DEF ReapStarted, Typed, TypedFiles, TypedState, given, files, child,
            chains, tokens, system, locals, Makefiles
    <2> QED  BY <1>7, <2>1, <2>2 DEF ReapStarted
  <1> QED  BY <1>3, <1>4, <1>5, <1>6, <1>7 DEF ReapChildren

LEMMA WaitingType ==
    ASSUME IInv, WaitingJobs
    PROVE  Typed'
  <1>1. TypedFiles /\ TypedState /\ Frames /\ Chains /\ Seen
    BY DEF IInv, Core, Typed
  <1>2. pc \in {"start_waiting_job", "started"} => cur \in Targets /\ Handling
    BY <1>1 DEF Chains, Handling, Labels
  <1>3. CASE QueueJob
    <2>1. waitingJobs' \in Seq(Targets)
      BY <1>1, <1>2, <1>3, AppendElements, PushElements DEF QueueJob, TypedState
    <2>2. commandState' \in [Targets -> {"not_started", "running", "finished"}]
      BY <1>1, <1>3 DEF QueueJob, TypedFiles
    <2>3. notParallel' \in Int
      BY <1>1, <1>3 DEF QueueJob, NowNotParallel, One, TypedState
    <2>4. TypedFiles'
      BY <1>1, <1>3, <2>2 DEF QueueJob, TypedFiles, given, child, Makefiles
    <2> QED  BY <1>1, <1>3, <2>1, <2>3, <2>4 DEF QueueJob, Typed, TypedState, tokens, system, locals
  <1>4. CASE StartNow
    <2>1. notParallel' \in Int
      BY <1>1, <1>4 DEF StartNow, NowNotParallel, One, TypedState
    <2> QED  BY <1>1, <1>4, <2>1 DEF StartNow, Typed, TypedFiles, TypedState, given, files, child,
               chains, tokens, system, locals, Makefiles
  <1>5. CASE Started
    <2>1. /\ children' \in Seq(Targets) /\ jobSlotsUsed' \in Nat
          /\ jobserverTokens' \in Nat /\ pool' \in Nat /\ others' \in Nat
      <3>1. <<cur>> \o children \in Seq(Targets) /\ jobSlotsUsed + 1 \in Nat
        BY <1>1, <1>2, <1>5, PushElements DEF Started, TypedState
      <3>2. jobserverTokens >= 1
        <4>1. ~dying
          <5>1. Ends /\ Labels = {"started"} \cup Range(stack)
            BY <1>5 DEF Started, IInv, Core, Labels
          <5>2. ~Over
            BY <1>1, <1>5, <5>1, Shapes DEF Started, Over, Backs
          <5> QED  BY <5>1, <5>2 DEF Ends
        <4>2. Len(children) \in Nat /\ Len(waitingJobs) \in Nat
          BY <1>1, LenProperties DEF TypedState
        <4> QED  BY <1>1, <1>2, <1>5, <4>1, <4>2 DEF Started, Chains, One
      <3>3. FreeChild => jobserverTokens' \in Nat /\ pool' \in Nat /\ others' \in Nat
        BY <1>1, <3>2 DEF FreeChild, One, TypedState
      <3> QED  BY <1>1, <1>5, <3>1, <3>3 DEF Started, tokens, TypedState
    <2> QED  BY <1>1, <1>5, <2>1 DEF Started, Typed, TypedFiles, TypedState, given, files, child,
               system, locals, Makefiles
  <1>6. CASE StartWaitingJobs
    <2>1. block' \in BOOLEAN
      <3>1. block \in BOOLEAN
        BY <1>1 DEF TypedState
      <3> QED  BY <1>6, <3>1, Zenon DEF StartWaitingJobs, ReapThen
    <2> QED  BY <1>1, <1>6, <2>1 DEF StartWaitingJobs, Typed, TypedFiles, TypedState, given, files,
               child, chains, tokens, system, Makefiles
  <1>7. CASE TakeWaiting
    <2>1. waitingJobs # <<>>
      BY <1>1, <1>7 DEF TakeWaiting, Seen, Labels
    <2>2. Head(waitingJobs) \in Targets /\ Tail(waitingJobs) \in Seq(Targets)
      BY <1>1, <2>1, TailElements DEF TypedState
    <2>3. notParallel' \in Int
      BY <1>1, <1>7 DEF TakeWaiting, One, TypedState
    <2> QED  BY <1>1, <1>7, <2>2, <2>3 DEF TakeWaiting, Typed, TypedFiles, TypedState, given, files,
               child, tokens, system, Makefiles
  <1> QED  BY <1>3, <1>4, <1>5, <1>6, <1>7 DEF WaitingJobs

LEMMA NewJobType ==
    ASSUME IInv, NewJobSteps \/ (\E t \in Targets : NewJob(t)) \/ NextRound \/ ReapRound \/ LastRound
                   \/ DieReaps \/ CleanJobserver
    PROVE  Typed'
  <1>1. TypedFiles /\ TypedState
    BY DEF IInv, Typed
  <1>2. block \in BOOLEAN
    BY <1>1 DEF TypedState
  <1>3. CASE ReapBefore \/ Linear \/ WaitSlot \/ ReapRound \/ DieReaps
    <2>1. block' \in BOOLEAN
      BY <1>2, <1>3, Zenon DEF ReapBefore, Linear, WaitSlot, ReapRound, DieReaps, ReapThen
    <2>2. UNCHANGED <<given, files, child, chains, tokens, notParallel, system, cur, new, dying, status>>
      BY <1>3 DEF ReapBefore, Linear, WaitSlot, ReapRound, DieReaps
    <2> QED  BY <1>1, <2>1, <2>2 DEF Typed, TypedFiles, TypedState, given, files, child, chains,
               tokens, system, Makefiles
  <1>4. CASE StartWaiting \/ FreeToken \/ NextRound
    <2>1. UNCHANGED <<given, files, child, chains, tokens, notParallel, system, locals>>
      BY <1>4 DEF StartWaiting, FreeToken, NextRound
    <2> QED  BY <1>1, <2>1 DEF Typed, TypedFiles, TypedState, given, files, child, chains, tokens,
               system, locals, Makefiles
  <1>5. ASSUME NEW t \in Targets, NewJob(t) PROVE Typed'
    BY <1>1, <1>5 DEF NewJob, Typed, TypedFiles, TypedState, given, files, child, chains, tokens,
       system, Makefiles
  <1>6. CASE Acquire
    <2>1. pool' \in Nat
      BY <1>1, <1>6 DEF Acquire, TypedState
    <2> QED  BY <1>1, <1>6, <2>1 DEF Acquire, Typed, TypedFiles, TypedState, given, files, child,
               chains, system, locals, Makefiles
  <1>7. CASE StartNewJob
    BY <1>1, <1>7 DEF StartNewJob, Typed, TypedFiles, TypedState, given, files, child, chains,
       system, Makefiles
  <1>8. CASE LastRound
    <2>1. dying' \in BOOLEAN
      BY <1>8 DEF LastRound
    <2>2. status' \in 0 .. 2
      BY <1>8 DEF LastRound, ExitStatus
    <2> QED  BY <1>1, <1>8, <2>1, <2>2 DEF LastRound, Typed, TypedFiles, TypedState, given, files,
               child, chains, tokens, system, Makefiles
  <1>9. CASE CleanJobserver
    <2>1. pool' \in Nat /\ jobserverTokens' \in Nat
      <3>1. CASE UNCHANGED <<pool, jobserverTokens>>
        BY <1>1, <3>1 DEF TypedState
      <3>2. CASE jobserverTokens > 0 /\ pool' = pool + jobserverTokens - 1 /\ jobserverTokens' = 0
        BY <1>1, <3>2 DEF TypedState
      <3> QED  BY <1>9, <3>1, <3>2 DEF CleanJobserver
    <2> QED  BY <1>1, <1>9, <2>1 DEF CleanJobserver, Typed, TypedFiles, TypedState, given, files,
               child, chains, system, locals, Makefiles
  <1> QED  BY <1>3, <1>4, <1>5, <1>6, <1>7, <1>8, <1>9 DEF NewJobSteps

LEMMA OutsideType ==
    ASSUME IInv, OtherTakes \/ OtherGives \/ (\E p \in Procs : ProcessExits(p)) \/ UNCHANGED vars
    PROVE  Typed'
  <1>1. TypedFiles /\ TypedState
    BY DEF IInv, Typed
  <1>2. CASE OtherTakes \/ OtherGives
    <2>1. pool' \in Nat /\ others' \in Nat
      BY <1>1, <1>2 DEF OtherTakes, OtherGives, TypedState
    <2>2. UNCHANGED <<given, files, child, chains, jobserverTokens, notParallel, system, locals>>
      BY <1>2 DEF OtherTakes, OtherGives
    <2> QED  BY <1>1, <2>1, <2>2 DEF Typed, TypedFiles, TypedState, given, files, child, chains,
               system, locals, Makefiles
  <1>3. ASSUME NEW p \in Procs, ProcessExits(p) PROVE Typed'
    <2>1. exit' \in [Procs -> {"none", "running"} \cup Results]
      BY <1>1, <1>3 DEF ProcessExits, TypedState
    <2> QED  BY <1>1, <1>3, <2>1 DEF ProcessExits, Typed, TypedFiles, TypedState, given, files, child,
               chains, tokens, locals, Makefiles
  <1>4. CASE UNCHANGED vars
    BY <1>1, <1>4 DEF vars, Typed, TypedFiles, TypedState, given, files, child, chains, tokens,
       system, locals, Makefiles
  <1> QED  BY <1>2, <1>3, <1>4

LEMMA StepType == ASSUME IInv, [Next]_vars PROVE Typed'
  BY StartType, ReapType, WaitingType, NewJobType, OutsideType DEF Next, Kmk

-----------------------------------------------------------------------------
(* The rest of the invariant.  First the steps that change no job: only    *)
(* the labels matter.                                                      *)

jobs == <<given, commandState, line, chains, jobserverTokens, cur, new, dying, status>>

LEMMA QuietCore ==
    ASSUME IInv, UNCHANGED jobs
    PROVE  /\ (Handling' <=> Handling) /\ pc # "exited" /\ pc' # "exited" => Recipes' /\ Chains'
           /\ /\ (Handling' <=> Handling) /\ (Restarting' <=> Restarting) /\ (Coming' => Coming)
              /\ Handling /\ "linear" \in Labels => "linear" \in Labels'
              /\ pc' = "start_waiting_job" \/ pc' = "start" => pc = "start_waiting_job" \/ pc = "start"
              => States'
           /\ /\ "take_waiting" \in Labels' => "take_waiting" \in Labels \/ waitingJobs # <<>>
              /\ pc' = "free_token" => waitingJobs = <<>> \/ children # <<>>
              /\ pc' = "acquire" => children # <<>>
              /\ "start_waiting" \in Labels' \/ "free_token" \in Labels' \/ "acquire" \in Labels'
                   => \/ Mode = "jobserver"
                      \/ "start_waiting" \in Labels \/ "free_token" \in Labels \/ "acquire" \in Labels
              => Seen'
           /\ (Over' <=> Over) /\ pc' # "exited" => Ends'
           /\ UNCHANGED <<pool, others>> /\ (pc = "have_slot" <=> pc' = "have_slot") => Conserved'
  <1>1. /\ UNCHANGED <<invocation, recipe, commandState, line, children, waitingJobs, jobSlotsUsed,
                       jobserverTokens, cur, new, dying, status>>
        /\ Mode' = Mode /\ Tokens' = Tokens /\ OnChain' = OnChain
    BY DEF jobs, given, chains, Mode, Tokens, OnChain
  <1>2. Recipes /\ Chains /\ States /\ Seen /\ Ends /\ Conserved
    BY DEF IInv, Core
  <1>3. (Handling' <=> Handling) /\ pc # "exited" /\ pc' # "exited" => Recipes' /\ Chains'
    BY <1>1, <1>2 DEF Recipes, Chains, Hand, One
  <1>4. /\ (Handling' <=> Handling) /\ (Restarting' <=> Restarting) /\ (Coming' => Coming)
        /\ Handling /\ "linear" \in Labels => "linear" \in Labels'
        /\ pc' = "start_waiting_job" \/ pc' = "start" => pc = "start_waiting_job" \/ pc = "start"
        => States'
    BY <1>1, <1>2 DEF States, Hand
  <1>5. /\ "take_waiting" \in Labels' => "take_waiting" \in Labels \/ waitingJobs # <<>>
        /\ pc' = "free_token" => waitingJobs = <<>> \/ children # <<>>
        /\ pc' = "acquire" => children # <<>>
        /\ "start_waiting" \in Labels' \/ "free_token" \in Labels' \/ "acquire" \in Labels'
             => \/ Mode = "jobserver"
                \/ "start_waiting" \in Labels \/ "free_token" \in Labels \/ "acquire" \in Labels
        => Seen'
    BY <1>1, <1>2 DEF Seen
  <1>6. (Over' <=> Over) /\ pc' # "exited" => Ends'
    BY <1>1, <1>2 DEF Ends
  <1>7. UNCHANGED <<pool, others>> /\ (pc = "have_slot" <=> pc' = "have_slot") => Conserved'
    BY <1>1, <1>2 DEF Conserved, One
  <1> QED  BY <1>3, <1>4, <1>5, <1>6, <1>7

LEMMA OutsideCore ==
    ASSUME IInv, OtherTakes \/ OtherGives \/ (\E p \in Procs : ProcessExits(p)) \/ UNCHANGED vars
    PROVE  Core'
  <1>1. UNCHANGED jobs /\ UNCHANGED <<pc, stack>>
    BY DEF OtherTakes, OtherGives, ProcessExits, vars, jobs, files, child, chains, tokens, control,
           locals
  <1>2. Labels' = Labels /\ Frames'
    BY <1>1 DEF Labels, Frames, IInv, Core
  <1>3. UNCHANGED <<invocation, recipe, commandState, line, children, waitingJobs, jobSlotsUsed,
                    jobserverTokens, cur, new, dying, status, pc>>
        /\ Mode' = Mode /\ Tokens' = Tokens /\ OnChain' = OnChain
        /\ Handling' = Handling /\ Restarting' = Restarting /\ Coming' = Coming /\ Over' = Over
    BY <1>1, <1>2 DEF jobs, given, chains, Mode, Tokens, OnChain, Handling, Restarting, Coming, Over
  <1>4. Recipes' /\ Chains' /\ States' /\ Seen' /\ Ends'
    BY <1>2, <1>3 DEF IInv, Core, Recipes, Chains, States, Seen, Ends, Hand, One
  <1>5. Conserved'
    <2>1. Conserved /\ pool \in Nat /\ others \in Nat /\ jobserverTokens \in Nat /\ Tokens \in Nat
      BY Given DEF IInv, Core, Typed, TypedState
    <2>2. CASE OtherTakes
      BY <1>3, <2>1, <2>2 DEF OtherTakes, Conserved, One
    <2>3. CASE OtherGives
      BY <1>3, <2>1, <2>3 DEF OtherGives, Conserved, One
    <2>4. CASE UNCHANGED <<pool, others>>
      BY <1>3, <2>1, <2>4 DEF Conserved, One
    <2> QED  BY <2>2, <2>3, <2>4 DEF ProcessExits, tokens, vars
  <1> QED  BY <1>2, <1>4, <1>5 DEF Core

(* reap_children() comes to its end.                                       *)
LEMMA ReapReturnsCore ==
    ASSUME IInv, ReapReturns \/ ReapNothing
    PROVE  Core'
  <1>1. pc = "reap" /\ Return /\ UNCHANGED jobs /\ UNCHANGED <<pool, others>> /\ Frames
    BY DEF ReapReturns, ReapNothing, Reaping, jobs, files, child, tokens, locals, IInv, Core
  <1>2. Frames' /\ Labels' = Range(stack) /\ Labels = {"reap"} \cup Range(stack)
    BY <1>1, ReturnFrames DEF Labels
  <1>3. pc' \in Bottoms \cup {"take_waiting"}
    BY <1>1, ReturnFrames
  <1>4. \/ \E b \in Bottoms : Labels' = {b}
        \/ \E b \in Backs : Labels' = {"take_waiting", b}
    BY <1>1, <1>2, Shapes
  <1>5. /\ ~Handling /\ ~Handling' /\ ~Restarting /\ ~Restarting' /\ (Coming' <=> Coming)
        /\ (Over' <=> Over)
        /\ "take_waiting" \in Labels' => "take_waiting" \in Labels
        /\ "start_waiting" \in Labels' \/ "free_token" \in Labels' \/ "acquire" \in Labels'
             => "start_waiting" \in Labels \/ "free_token" \in Labels \/ "acquire" \in Labels
    BY <1>2, <1>4 DEF Handling, Restarting, Coming, Over, Bottoms, Backs
  <1>6. pc' \notin {"exited", "start_waiting_job", "start", "free_token", "acquire", "have_slot"}
    BY <1>3 DEF Bottoms
  <1> QED  BY <1>1, <1>2, <1>5, <1>6, QuietCore DEF Core

(* A child of an invoker has died, or the next line of a child runs: kmk   *)
(* looks for the next dead child.                                          *)
LEMMA ReapGoesOnCore ==
    ASSUME IInv, (\E p \in Procs : ReapUnknown(p)) \/ (ReapStarted /\ commandState[cur] = "running")
    PROVE  Core'
  <1>1. CASE \E p \in Procs : ReapUnknown(p)
    <2>1. UNCHANGED <<pc, stack>> /\ UNCHANGED jobs /\ UNCHANGED <<pool, others>> /\ pc = "reap" /\ Frames
      BY <1>1 DEF ReapUnknown, Reaping, control, jobs, files, child, tokens, locals, IInv, Core
    <2>2. Frames' /\ Labels' = Labels
      BY <2>1 DEF Labels, Frames
    <2> QED  BY <2>1, <2>2, QuietCore DEF Core, Handling, Restarting, Coming, Over
  <1>2. CASE ReapStarted /\ commandState[cur] = "running"
    <2>1. pc = "reap_started" /\ Goto("reap") /\ UNCHANGED jobs /\ UNCHANGED <<pool, others>> /\ Frames
      BY <1>2 DEF ReapStarted, jobs, files, child, tokens, locals, IInv, Core
    <2>2. stack \in Reapers /\ Frames'
      BY <2>1 DEF Frames, Flat, Goto
    <2>3. Labels' = {"reap"} \cup Range(stack) /\ Labels = {"reap_started"} \cup Range(stack)
      BY <2>1 DEF Labels, Goto
    <2>4. /\ ~Handling /\ ~Handling' /\ Restarting /\ ~Restarting' /\ (Coming' <=> Coming)
          /\ (Over' <=> Over)
          /\ "take_waiting" \in Labels' => "take_waiting" \in Labels
          /\ "start_waiting" \in Labels' \/ "free_token" \in Labels' \/ "acquire" \in Labels'
               => "start_waiting" \in Labels \/ "free_token" \in Labels \/ "acquire" \in Labels
      BY <2>1, <2>3, Shapes DEF Handling, Restarting, Coming, Over, Bottoms, Backs
    <2>5. pc' = "reap"
      BY <2>1 DEF Goto
    <2>6. States'
      <3>1. UNCHANGED <<commandState, children, waitingJobs, cur, new>> /\ States
        BY <2>1 DEF jobs, chains, IInv, Core
      <3>2. OnChain' = OnChain /\ Hand' = {} /\ Hand = {}
        BY <2>4, <3>1 DEF OnChain, Hand
      <3> QED  BY <1>2, <2>4, <2>5, <3>1, <3>2 DEF States
    <2> QED  BY <2>1, <2>2, <2>4, <2>5, <2>6, QuietCore DEF Core
  <1> QED  BY <1>1, <1>2

(* A child is finished.                                                    *)
LEMMA FinishCore ==
    ASSUME IInv, NEW c \in Range(children), NEW s, NEW f \in 0 .. 2, FinishChild(c, s, f),
           pc = "reap" \/ (pc = "reap_started" /\ c = cur)
    PROVE  Core'
  <1>1. /\ TypedFiles /\ TypedState /\ Frames /\ Chains /\ Recipes /\ States /\ Seen /\ Ends /\ Conserved
        /\ Mode \in Modes /\ Tokens \in Nat
    BY Given DEF IInv, Typed, Core
  <1>2. /\ c \in Targets /\ c \notin Range(waitingJobs)
        /\ children' \in Seq(Targets) /\ Len(children') = Len(children) - 1
        /\ Len(children) \in Nat \ {0} /\ Len(waitingJobs) \in Nat
        /\ IsInjective(children') /\ Range(children') = Range(children) \ {c}
        /\ jobSlotsUsed' = Len(children')
    BY <1>1, FinishedChild
  <1>3. /\ commandState' = [commandState EXCEPT ![c] = "finished"]
        /\ UNCHANGED <<invocation, recipe, line, waitingJobs, cur, new, others>>
        /\ Mode' = Mode /\ Tokens' = Tokens
    BY DEF FinishChild, NoticeFinished, given, child, tokens, FreeChild, Mode, Tokens
  <1>4. Labels = {pc} \cup Range(stack) /\ stack \in Reapers
    BY <1>1 DEF Labels, Frames, Flat
  <1>5. \/ \E b \in Bottoms : Range(stack) = {b}
        \/ \E b \in Backs : Range(stack) = {"take_waiting", b}
    BY <1>4, ReaperLabels
  <1>6. ~Handling /\ OnChain' = OnChain \ {c} /\ (Restarting => pc = "reap_started")
    BY <1>2, <1>3, <1>4, <1>5 DEF Handling, Restarting, OnChain, Bottoms, Backs
  <1>7. /\ \A t \in Range(waitingJobs) : commandState'[t] = "running"
        /\ \A t \in Range(children') : commandState'[t] = "running"
        /\ \A t \in Targets : commandState'[t] = "running" => t \in OnChain'
        /\ \A t \in Targets : t # c => commandState'[t] = commandState[t]
        /\ commandState'[c] = "finished"
        /\ Coming => new # c
    <2>1. Range(waitingJobs) \subseteq Targets /\ Range(children) \subseteq Targets
      BY <1>1, RangeOfSeq DEF TypedState
    <2>2. Hand = {}
      BY <1>6 DEF Hand
    <2>3. /\ \A t \in Targets : t # c => commandState'[t] = commandState[t]
          /\ commandState'[c] = "finished"
      BY <1>1, <1>2, <1>3 DEF TypedFiles
    <2>4. \A t \in Range(children) : t # c => commandState[t] = "running"
      BY <1>1, <1>6 DEF States
    <2>5. Coming => commandState[new] # commandState[c]
      BY <1>1, <1>6 DEF States
    <2> QED  BY <1>1, <1>2, <1>6, <2>1, <2>2, <2>3, <2>4, <2>5 DEF States
  <1>8. CASE f # 0 /\ ~dying /\ ~KeepGoing
    <2>1. pc' = "die" /\ stack' = <<>> /\ dying' /\ status' = f /\ UNCHANGED <<jobserverTokens, pool>>
      BY <1>8 DEF FinishChild, tokens
    <2>2. Labels' = {"die"} /\ Frames'
      <3>1. Range(<<>>) = {}
        BY DEF Range
      <3> QED  BY <2>1, <3>1 DEF Labels, Frames, Flat
    <2>3. ~Handling' /\ ~Restarting' /\ ~Coming' /\ Over'
      BY <2>2 DEF Handling, Restarting, Coming, Over
    <2>4. Recipes'
      BY <1>1, <1>2, <1>3, <1>6, <1>7, <2>3 DEF Recipes, Hand
    <2>5. Chains'
      BY <1>1, <1>2, <1>3, <1>6, <1>8, <2>1, <2>3 DEF Chains, One
    <2>6. States'
      BY <1>7, <1>3, <2>1, <2>3 DEF States
    <2>7. Seen' /\ Ends'
      BY <1>8, <2>1, <2>2, <2>3 DEF Seen, Ends
    <2>8. Conserved'
      BY <1>1, <1>3, <2>1 DEF Conserved, One
    <2> QED  BY <2>2, <2>4, <2>5, <2>6, <2>7, <2>8 DEF Core
  <1>9. CASE ~(f # 0 /\ ~dying /\ ~KeepGoing)
    <2>1. /\ pc' = "reap" /\ UNCHANGED <<stack, dying, status>>
          /\ jobserverTokens' = jobserverTokens - 1
          /\ pool' = pool + One(Mode = "jobserver" /\ jobserverTokens > 1)
      BY <1>9 DEF FinishChild, FreeChild
    <2>2. Labels' = {"reap"} \cup Range(stack) /\ Frames'
      BY <1>4, <2>1 DEF Labels, Frames
    <2>3. /\ ~Handling' /\ ~Restarting' /\ (Coming' <=> Coming) /\ (Over' <=> Over)
          /\ "take_waiting" \in Labels' => "take_waiting" \in Labels
          /\ "start_waiting" \in Labels' \/ "free_token" \in Labels' \/ "acquire" \in Labels'
               => "start_waiting" \in Labels \/ "free_token" \in Labels \/ "acquire" \in Labels
      BY <1>4, <1>5, <2>2 DEF Handling, Restarting, Coming, Over, Bottoms, Backs
    <2>4. Recipes'
      BY <1>1, <1>2, <1>3, <1>6, <1>7, <2>3 DEF Recipes, Hand
    <2>5. Chains'
      BY <1>1, <1>2, <1>3, <1>6, <2>1, <2>3 DEF Chains, One, TypedState
    <2>6. States'
      BY <1>1, <1>7, <1>3, <2>1, <2>3 DEF States
    <2>7. Seen'
      BY <1>1, <1>3, <2>1, <2>3 DEF Seen
    <2>8. Ends'
      <3>1. children # <<>>
        BY <1>2
      <3> QED  BY <1>1, <2>1, <2>3, <3>1 DEF Ends
    <2>9. Conserved'
      <3>1. jobserverTokens \in Nat \ {0} /\ pool \in Nat /\ others \in Nat
        BY <1>1, <1>2, <1>6 DEF Chains, One, TypedState
      <3>2. CASE Mode = "jobserver"
        BY <1>1, <1>3, <2>1, <3>1, <3>2 DEF Conserved, One
      <3>3. CASE Mode # "jobserver"
        BY <1>1, <1>3, <2>1, <3>1, <3>3 DEF Conserved, One
      <3> QED  BY <3>2, <3>3
    <2> QED  BY <2>2, <2>4, <2>5, <2>6, <2>7, <2>8, <2>9 DEF Core
  <1> QED  BY <1>8, <1>9

(* A child has ended.                                                      *)
LEMMA HandleExitCore ==
    ASSUME IInv, pc = "reap", NEW c \in Range(children), NEW e, HandleExit(c, e)
    PROVE  Core'
  <1>1. Failure(c, e) \in 0 .. 2
    BY DEF Failure
  <1>2. CASE \E s : FinishChild(c, s, Failure(c, e)) \/ FinishChild(c, s, 0)
    <2>1. PICK s : FinishChild(c, s, Failure(c, e)) \/ FinishChild(c, s, 0)
      BY <1>2
    <2> QED  BY <1>1, <2>1, FinishCore
  <1>3. CASE /\ line[c] < Len(recipe[c])
             /\ line' = [line EXCEPT ![c] = @ + 1]
             /\ cur' = c
             /\ Call("start", "reap_started")
             /\ UNCHANGED <<given, files, pid, hasStatus, chains, tokens, notParallel,
                            new, block, dying, status>>
    <2>1. /\ TypedFiles /\ TypedState /\ Frames /\ Chains /\ Recipes /\ States /\ Seen /\ Ends /\ Conserved
          /\ c \in Targets
      BY RangeOfSeq DEF IInv, Typed, TypedState, Core
    <2>2. /\ UNCHANGED <<invocation, recipe, commandState, children, waitingJobs, jobSlotsUsed,
                         jobserverTokens, pool, others, new, dying, status>>
          /\ pc' = "start" /\ Mode' = Mode /\ Tokens' = Tokens /\ OnChain' = OnChain
      BY <1>3 DEF given, files, chains, tokens, Call, Mode, Tokens, OnChain
    <2>3. Frames' /\ Labels' = {"start", "reap_started"} \cup Range(stack)
      BY <1>3, <2>1, CallFrames DEF Words
    <2>4. Labels = {"reap"} \cup Range(stack)
      BY DEF Labels
    <2>5. /\ ~Handling /\ ~Handling' /\ ~Restarting /\ Restarting' /\ (Coming' <=> Coming)
          /\ (Over' <=> Over)
          /\ "take_waiting" \in Labels' => "take_waiting" \in Labels
          /\ "start_waiting" \in Labels' \/ "free_token" \in Labels' \/ "acquire" \in Labels'
               => "start_waiting" \in Labels \/ "free_token" \in Labels \/ "acquire" \in Labels
      BY <2>1, <2>3, <2>4, Shapes DEF Handling, Restarting, Coming, Over, Bottoms, Backs
    <2>6. Recipes'
      <3>1. recipe[c] # <<>> /\ DOMAIN recipe[c] = 1 .. Len(recipe[c]) /\ Len(recipe[c]) \in Nat
        BY <2>1, Given DEF Recipes, OnChain
      <3>2. line[c] \in 1 .. Len(recipe[c]) /\ line[c] + 1 \in DOMAIN recipe[c]
        <4>1. line[c] \in 1 .. Len(recipe[c])
          BY <2>1, <3>1 DEF Recipes
        <4> QED  BY <1>3, <3>1, <4>1
      <3>3. \A t \in Targets : line'[t] = IF t = c THEN line[c] + 1 ELSE line[t]
        BY <1>3, <2>1 DEF TypedFiles
      <3> QED  BY <2>1, <2>2, <2>5, <3>1, <3>2, <3>3 DEF Recipes, Hand
    <2>7. Chains'
      BY <2>1, <2>2, <2>5 DEF Chains, One
    <2>8. States'
      <3>1. commandState[c] = "running" /\ cur' = c
        BY <1>3, <2>1, <2>5 DEF States
      <3> QED  BY <2>1, <2>2, <2>5, <3>1 DEF States, Hand
    <2>9. Seen' /\ Ends' /\ Conserved'
      BY <2>1, <2>2, <2>5 DEF Seen, Ends, Conserved, One
    <2> QED  BY <2>3, <2>6, <2>7, <2>8, <2>9 DEF Core
  <1> QED  BY <1>2, <1>3 DEF HandleExit

LEMMA ReapCore ==
    ASSUME IInv, ReapChildren
    PROVE  Core'
  <1>1. TypedState /\ Frames /\ States
    BY DEF IInv, Core, Typed
  <1>2. CASE ReapCompleted
    <2>1. ChildOf(pid[CompletedChild]) \in Range(children)
      BY <1>1, <1>2, CompletedFacts, ChildOfFacts DEF ReapCompleted
    <2> QED  BY <1>2, <2>1, HandleExitCore DEF ReapCompleted, Reaping
  <1>3. ASSUME NEW p \in Procs, ReapProcess(p) PROVE Core'
    <2>1. ChildOf(p) \in Range(children)
      BY <1>1, <1>3, ChildOfFacts DEF ReapProcess
    <2> QED  BY <1>3, <2>1, HandleExitCore DEF ReapProcess, Reaping
  <1>4. CASE ReapStarted /\ commandState[cur] # "running"
    <2>1. pc = "reap_started" /\ FinishChild(cur, updateStatus[cur], 0)
      BY <1>4 DEF ReapStarted
    <2>2. cur \in Range(children)
      BY <1>1, <2>1 DEF States, Restarting, Labels
    <2> QED  BY <2>1, <2>2, FinishCore
  <1> QED  BY <1>2, <1>3, <1>4, ReapReturnsCore, ReapGoesOnCore DEF ReapChildren

-----------------------------------------------------------------------------
(* start_job_command() goes on with the next line, or returns with the     *)
(* file running or finished.                                               *)

LEMMA StartSummary ==
    ASSUME IInv, StartJobCommand
    PROVE  /\ pc = "start" /\ UNCHANGED <<given, chains, tokens, locals>>
           /\ \A t \in Targets : t # cur => commandState'[t] = commandState[t] /\ line'[t] = line[t]
           /\ line'[cur] = line[cur] \/ (line[cur] < Len(recipe[cur]) /\ line'[cur] = line[cur] + 1)
           /\ \/ /\ UNCHANGED control
                 /\ commandState'[cur] = "running" \/ commandState'[cur] = commandState[cur]
              \/ Return /\ commandState'[cur] \in {"running", "finished"}
  <1>1. TypedFiles /\ cur \in Targets /\ pc = "start"
    <2>1. pc = "start"
      BY DEF StartJobCommand, StartEmpty, StartQuestion, StartProcess, StartForkFails,
             StartBuiltinOk, StartBuiltinFails, Starting
    <2> QED  BY <2>1, StartFacts DEF IInv, Typed
  <1>2. UNCHANGED <<given, chains, tokens, locals>>
    BY DEF StartJobCommand, StartEmpty, StartQuestion, StartProcess, StartForkFails,
           StartBuiltinOk, StartBuiltinFails, Starting
  <1>3. line[cur] <= Len(recipe[cur])
    <2>1. recipe[cur] # <<>> /\ Recipes
      BY <1>1, StartFacts DEF IInv, Core
    <2>2. DOMAIN recipe[cur] = 1 .. Len(recipe[cur]) /\ Len(recipe[cur]) \in Nat
      BY <1>1, Given
    <2>3. line[cur] \in 1 .. Len(recipe[cur])
      BY <1>1, <2>1, <2>2 DEF Recipes
    <2> QED  BY <2>2, <2>3
  <1>4. NextCommand => \/ UNCHANGED control /\ ~LastCommand /\ line' = [line EXCEPT ![cur] = @ + 1]
                          /\ line[cur] < Len(recipe[cur])
                       \/ Return /\ LastCommand /\ UNCHANGED line
    <2>1. line[cur] \in Nat /\ Len(recipe[cur]) \in Nat
      BY <1>1, Given DEF TypedFiles
    <2> QED  BY <1>3, <2>1 DEF NextCommand, LastCommand
  <1>5. CASE StartEmpty
    <2>1. \A t \in Targets : t # cur => commandState'[t] = commandState[t]
      BY <1>1, <1>5 DEF StartEmpty, TypedFiles
    <2>2. commandState'[cur] = IF LastCommand THEN "finished" ELSE commandState[cur]
      BY <1>1, <1>5 DEF StartEmpty, TypedFiles
    <2>3. NextCommand
      BY <1>5 DEF StartEmpty
    <2> QED  BY <1>1, <1>2, <1>4, <2>1, <2>2, <2>3 DEF TypedFiles
  <1>6. CASE StartBuiltinOk
    <2>1. \A t \in Targets : t # cur => commandState'[t] = commandState[t]
      BY <1>1, <1>6 DEF StartBuiltinOk, TypedFiles
    <2>2. commandState'[cur] = IF LastCommand THEN "finished" ELSE "running"
      BY <1>1, <1>6 DEF StartBuiltinOk, TypedFiles
    <2>3. NextCommand
      BY <1>6 DEF StartBuiltinOk
    <2> QED  BY <1>1, <1>2, <1>4, <2>1, <2>2, <2>3 DEF TypedFiles
  <1>7. CASE StartQuestion \/ StartForkFails
    <2>1. Return /\ UNCHANGED line /\ commandState' = [commandState EXCEPT ![cur] = "finished"]
      BY <1>7 DEF StartQuestion, StartForkFails, NoticeFinished, child
    <2> QED  BY <1>1, <1>2, <2>1 DEF TypedFiles
  <1>8. CASE StartProcess \/ StartBuiltinFails
    <2>1. Return /\ UNCHANGED line /\ commandState' = [commandState EXCEPT ![cur] = "running"]
      BY <1>8 DEF StartProcess, StartBuiltinFails
    <2> QED  BY <1>1, <1>2, <2>1 DEF TypedFiles
  <1> QED  BY <1>5, <1>6, <1>7, <1>8 DEF StartJobCommand

LEMMA StartCore ==
    ASSUME IInv, StartJobCommand
    PROVE  Core'
  <1>1. /\ TypedFiles /\ TypedState /\ Frames /\ Chains /\ Recipes /\ States /\ Seen /\ Ends /\ Conserved
    BY DEF IInv, Typed, Core
  <1>2. /\ pc = "start" /\ cur \in Targets /\ recipe[cur] # <<>>
        /\ commandState[cur] \in {"not_started", "running"}
        /\ \/ Handling /\ ~Restarting /\ "started" \in Range(stack) /\ cur \notin OnChain
           \/ Restarting /\ ~Handling /\ cur \in Range(children)
    BY StartSummary, StartFacts
  <1>3. /\ UNCHANGED <<invocation, recipe, children, waitingJobs, jobSlotsUsed, jobserverTokens,
                       pool, others, cur, new, dying, status>>
        /\ Mode' = Mode /\ Tokens' = Tokens /\ OnChain' = OnChain
    BY StartSummary DEF given, chains, tokens, locals, Mode, Tokens, OnChain
  <1>4. /\ \A t \in Targets : t # cur => commandState'[t] = commandState[t] /\ line'[t] = line[t]
        /\ line'[cur] = line[cur] \/ (line[cur] < Len(recipe[cur]) /\ line'[cur] = line[cur] + 1)
        /\ \/ /\ UNCHANGED control
              /\ commandState'[cur] = "running" \/ commandState'[cur] = commandState[cur]
           \/ Return /\ commandState'[cur] \in {"running", "finished"}
    BY StartSummary
  <1>5. /\ Frames' /\ (Labels' = Labels \/ Labels' = Range(stack)) /\ Labels = {"start"} \cup Range(stack)
        /\ pc' \in {"start", "started", "reap_started"}
        /\ pc' = "start" => UNCHANGED control
    <2>1. CASE UNCHANGED control
      BY <1>1, <1>2, <2>1 DEF control, Frames, Labels
    <2>2. CASE Return
      <3>1. pc' \in {"started", "reap_started"}
        BY <1>1, <1>2, <2>2, ReturnFrames
      <3> QED  BY <1>1, <1>2, <2>2, <3>1, ReturnFrames DEF Labels
    <2> QED  BY <1>4, <2>1, <2>2
  <1>6. /\ (Handling' <=> Handling) /\ (Restarting' <=> Restarting) /\ (Coming' <=> Coming)
        /\ (Over' <=> Over)
        /\ "take_waiting" \in Labels' <=> "take_waiting" \in Labels
        /\ "linear" \in Labels' <=> "linear" \in Labels
        /\ "start_waiting" \in Labels' \/ "free_token" \in Labels' \/ "acquire" \in Labels'
             => "start_waiting" \in Labels \/ "free_token" \in Labels \/ "acquire" \in Labels
    BY <1>5 DEF Handling, Restarting, Coming, Over
  <1>7. Hand' = Hand
    BY <1>3, <1>6 DEF Hand
  <1>8. Coming => new # cur
    <2>1. CASE Restarting
      <3>1. commandState[cur] # "not_started"
        BY <1>1, <1>2, <2>1 DEF States
      <3> QED  BY <1>1, <3>1 DEF States
    <2>2. CASE Handling
      <3>1. Coming => "linear" \notin Labels
        BY <1>1, <1>2, <1>5, <2>2, Shapes DEF Coming, Handling, Bottoms, Backs
      <3> QED  BY <1>1, <2>2, <3>1 DEF States
    <2> QED  BY <1>2, <2>1, <2>2
  <1>9. Recipes'
    <2>1. line'[cur] \in DOMAIN recipe[cur]
      <3>1. DOMAIN recipe[cur] = 1 .. Len(recipe[cur]) /\ Len(recipe[cur]) \in Nat
        BY <1>1, <1>2, Given
      <3>2. line[cur] \in 1 .. Len(recipe[cur])
        BY <1>1, <1>2, <3>1 DEF Recipes
      <3> QED  BY <1>4, <3>1, <3>2
    <2> QED  BY <1>1, <1>2, <1>3, <1>4, <1>7, <2>1 DEF Recipes
  <1>10. Chains'
    BY <1>1, <1>2, <1>3, <1>5, <1>6 DEF Chains, One
  <1>11. States'
    <2>1. Range(waitingJobs) \subseteq Targets /\ Range(children) \subseteq Targets
      BY <1>1, RangeOfSeq DEF TypedState
    <2>2. \A t \in Range(waitingJobs) : t # cur
      BY <1>1, <1>2 DEF Chains, OnChain
    <2>3. \A t \in Range(children) : \/ commandState'[t] = "running"
                                     \/ Restarting /\ t = cur /\ commandState'[t] = "finished"
      <3> SUFFICES ASSUME NEW t \in Range(children)
                   PROVE  \/ commandState'[t] = "running"
                          \/ Restarting /\ t = cur /\ commandState'[t] = "finished"
        OBVIOUS
      <3>1. CASE t # cur
        BY <1>1, <1>4, <2>1, <3>1 DEF States
      <3>2. CASE t = cur
        <4>1. Restarting /\ commandState[cur] = "running"
          BY <1>1, <1>2, <3>2 DEF States, OnChain
        <4> QED  BY <1>4, <3>2, <4>1
      <3> QED  BY <3>1, <3>2
    <2>4. \A t \in Targets : commandState'[t] = "running" => t \in OnChain \cup Hand
      BY <1>1, <1>2, <1>4 DEF States, Hand, OnChain
    <2>5. Handling /\ "linear" \notin Labels => commandState'[cur] # "not_started"
      BY <1>1, <1>4 DEF States
    <2>6. Coming => new \in Targets /\ commandState'[new] = "not_started"
      BY <1>1, <1>4, <1>8 DEF States
    <2>7. pc' = "start" => commandState'[cur] # "finished"
      <3>1. ASSUME pc' = "start" PROVE ~Return
        <4>1. UNCHANGED control
          BY <1>5, <3>1
        <4> QED  BY <1>1, <1>2, <3>1, ReturnFrames
      <3> QED  BY <1>2, <1>4, <3>1
    <2>8. Restarting => cur \in Range(children)
      BY <1>1 DEF States
    <2>9. ~(pc' = "start_waiting_job")
      BY <1>5
    <2>10. \A t \in Range(waitingJobs) : commandState'[t] = "running"
      BY <1>1, <1>4, <2>1, <2>2 DEF States
    <2> QED  BY <1>3, <1>6, <1>7, <2>3, <2>4, <2>5, <2>6, <2>7, <2>8, <2>9, <2>10 DEF States
  <1>12. Seen' /\ Ends'
    BY <1>1, <1>3, <1>5, <1>6 DEF Seen, Ends
  <1>13. Conserved'
    BY <1>1, <1>2, <1>3, <1>5 DEF Conserved, One
  <1> QED  BY <1>5, <1>9, <1>10, <1>11, <1>12, <1>13 DEF Core

-----------------------------------------------------------------------------
(* start_waiting_job() and start_waiting_jobs().                           *)

(* A job is put aside: kmk leaves start_waiting_job() and, if that is where *)
(* the job came from, start_waiting_jobs().                                *)
LEMMA QueueFrames ==
    ASSUME Frames, QueueJob
    PROVE  /\ Frames' /\ Labels' = {pc'} /\ pc' \in Backs \cup {"linear"}
           /\ Labels = {"start_waiting_job"} \cup Range(stack)
           /\ pc' = "linear" \/ ("linear" \notin Labels /\ pc' \in Labels)
  <1>1. pc = "start_waiting_job" /\ stack \in Starters
    BY DEF QueueJob, Frames, Flat
  <1> DEFINE rest == IF Head(stack) = "start_waiting_jobs" THEN Tail(stack) ELSE stack
  <1>2. pc' = Head(rest) /\ stack' = Tail(rest)
    BY DEF QueueJob
  <1>3. Range(<<>>) = {} /\ Labels = {"start_waiting_job"} \cup Range(stack)
    BY <1>1 DEF Range, Labels
  <1>4. CASE Head(stack) = "linear" /\ Tail(stack) = <<>> /\ Range(stack) = {"linear"}
    <2>1. pc' = "linear" /\ stack' = <<>>
      BY <1>2, <1>4
    <2> QED  BY <1>3, <2>1 DEF Frames, Flat, Labels
  <1>5. CASE /\ Head(stack) = "start_waiting_jobs" /\ Tail(stack) \in Callers
             /\ Range(stack) = {"start_waiting_jobs", Head(Tail(stack))}
    <2>1. Head(Tail(stack)) \in Backs /\ Tail(Tail(stack)) = <<>>
      BY <1>5, CallersFacts
    <2>2. pc' = Head(Tail(stack)) /\ stack' = <<>>
      BY <1>2, <1>5, <2>1
    <2> QED  BY <1>3, <1>5, <2>1, <2>2 DEF Frames, Flat, Labels, Backs
  <1> QED  BY <1>1, <1>4, <1>5, StartersFacts

LEMMA QueueJobCore ==
    ASSUME IInv, QueueJob
    PROVE  Core'
  <1>1. /\ TypedFiles /\ TypedState /\ Frames /\ Chains /\ Recipes /\ States /\ Seen /\ Ends /\ Conserved
        /\ pc = "start_waiting_job" /\ jobSlotsUsed > 0
    BY DEF IInv, Typed, Core, QueueJob
  <1>2. /\ Frames' /\ Labels' = {pc'} /\ pc' \in Backs \cup {"linear"}
        /\ Labels = {"start_waiting_job"} \cup Range(stack)
        /\ pc' = "linear" \/ ("linear" \notin Labels /\ pc' \in Labels)
    BY <1>1, QueueFrames
  <1>3. Handling /\ ~Handling' /\ ~Restarting' /\ ~Over'
    BY <1>1, <1>2 DEF Handling, Restarting, Over, Backs
  <1>3a. ~Restarting /\ ~Over
    BY <1>1, <1>2, Shapes DEF Restarting, Over, Backs
  <1>4. cur \in Targets /\ cur \notin OnChain
    BY <1>1, <1>3 DEF Chains
  <1>5. /\ UNCHANGED <<invocation, recipe, line, children, jobSlotsUsed, jobserverTokens, pool, others,
                       cur, new, dying, status>>
        /\ Mode' = Mode /\ Tokens' = Tokens
        /\ commandState' = [commandState EXCEPT ![cur] = "running"]
    BY DEF QueueJob, given, child, tokens, locals, Mode, Tokens
  <1>6. /\ waitingJobs' \in Seq(Targets) /\ Len(waitingJobs') = Len(waitingJobs) + 1
        /\ Range(waitingJobs') = Range(waitingJobs) \cup {cur} /\ IsInjective(waitingJobs')
    <2>1. waitingJobs \in Seq(Targets) /\ IsInjective(waitingJobs) /\ cur \notin Range(waitingJobs)
      BY <1>1, <1>4 DEF TypedState, Chains, OnChain
    <2>2. CASE waitingJobs' = Append(waitingJobs, cur)
      BY <1>4, <2>1, <2>2, AppendElements
    <2>3. CASE waitingJobs' = <<cur>> \o waitingJobs
      BY <1>4, <2>1, <2>3, PushElements
    <2> QED  BY <2>2, <2>3 DEF QueueJob
  <1>7. OnChain' = OnChain \cup {cur} /\ Hand' = {} /\ Hand = {cur}
    BY <1>3, <1>5, <1>6 DEF OnChain, Hand
  <1>8. /\ Len(children) \in Nat /\ Len(waitingJobs) \in Nat
        /\ Range(waitingJobs) \subseteq Targets /\ Range(children) \subseteq Targets
    BY <1>1, LenProperties, RangeOfSeq DEF TypedState
  <1>9. \A t \in Targets : commandState'[t] = IF t = cur THEN "running" ELSE commandState[t]
    BY <1>1, <1>4, <1>5 DEF TypedFiles
  <1>10. Recipes'
    BY <1>1, <1>4, <1>5, <1>7, <1>9 DEF Recipes
  <1>11. Chains' /\ Ends'
    <2>1. ~dying
      BY <1>1, <1>3a DEF Ends
    <2>2. Chains'
      BY <1>1, <1>3, <1>4, <1>5, <1>6, <1>8, <2>1 DEF Chains, OnChain, One
    <2>3. Ends'
      BY <1>2, <1>3, <1>5, <2>1 DEF Ends, Backs
    <2> QED  BY <2>2, <2>3
  <1>12. States'
    <2>1. /\ \A t \in Range(waitingJobs') : commandState'[t] = "running"
          /\ \A t \in Range(children) : commandState'[t] = "running"
      <3>1. /\ \A t \in Range(waitingJobs) : t \in Targets /\ commandState[t] = "running"
            /\ \A t \in Range(children) : t \in Targets /\ commandState[t] = "running"
        BY <1>1, <1>3a, <1>8 DEF States
      <3> QED  BY <1>4, <1>6, <1>9, <3>1
    <2>2. \A t \in Targets : commandState'[t] = "running" => t \in OnChain'
      BY <1>1, <1>7, <1>9 DEF States
    <2>3. Coming' => new \in Targets /\ commandState'[new] = "not_started"
      <3>1. Coming' => Coming /\ "linear" \notin Labels
        BY <1>2 DEF Coming
      <3>2. "linear" \notin Labels => commandState[cur] # "not_started"
        BY <1>1, <1>3 DEF States
      <3> QED  BY <1>1, <1>9, <3>1, <3>2 DEF States
    <2> QED  BY <1>2, <1>3, <1>5, <2>1, <2>2, <2>3 DEF States, Backs
  <1>13. Seen'
    <2>1. children # <<>>
      BY <1>1, <1>8, EmptySeq DEF Chains
    <2>2. "take_waiting" \notin Labels' /\ "acquire" \notin Labels' /\ "start_waiting" \notin Labels'
          /\ ("free_token" \in Labels' => "free_token" \in Labels)
      BY <1>2 DEF Backs
    <2> QED  BY <1>1, <1>2, <1>5, <2>1, <2>2 DEF Seen, Backs
  <1>14. Conserved'
    BY <1>1, <1>2, <1>5 DEF Conserved, One, Backs
  <1> QED  BY <1>2, <1>10, <1>11, <1>12, <1>13, <1>14 DEF Core

LEMMA StartNowCore ==
    ASSUME IInv, StartNow
    PROVE  Core'
  <1>1. /\ pc = "start_waiting_job" /\ Call("start", "started") /\ UNCHANGED jobs
        /\ UNCHANGED <<pool, others>> /\ Frames /\ States /\ Chains
    BY DEF StartNow, jobs, files, child, tokens, locals, IInv, Core
  <1>2. Frames' /\ Labels' = {"start", "started"} \cup Range(stack) /\ pc' = "start"
    BY <1>1, CallFrames DEF Words, Call
  <1>3. Labels = {"start_waiting_job"} \cup Range(stack)
    BY <1>1 DEF Labels
  <1>4. /\ Handling /\ Handling' /\ ~Restarting /\ ~Restarting' /\ (Coming' <=> Coming)
        /\ (Over' <=> Over)
        /\ "linear" \in Labels <=> "linear" \in Labels'
        /\ "take_waiting" \in Labels' => "take_waiting" \in Labels
        /\ "start_waiting" \in Labels' \/ "free_token" \in Labels' \/ "acquire" \in Labels'
             => "start_waiting" \in Labels \/ "free_token" \in Labels \/ "acquire" \in Labels
    BY <1>1, <1>2, <1>3, Shapes DEF Handling, Restarting, Coming, Over, Backs
  <1> QED  BY <1>1, <1>2, <1>4, QuietCore DEF Core

LEMMA StartedCore ==
    ASSUME IInv, Started
    PROVE  Core'
  <1>1. /\ TypedFiles /\ TypedState /\ Frames /\ Chains /\ Recipes /\ States /\ Seen /\ Ends /\ Conserved
        /\ pc = "started" /\ Return /\ Mode \in Modes /\ Tokens \in Nat
    BY Given DEF IInv, Typed, Core, Started
  <1>2. /\ Frames' /\ Labels' = Range(stack) /\ Labels = {"started"} \cup Range(stack)
        /\ pc' = "linear" \/ pc' = "start_waiting_jobs"
    BY <1>1, ReturnFrames DEF Labels
  <1>3. /\ Handling /\ ~Handling' /\ ~Restarting /\ ~Restarting' /\ ~Over /\ ~Over'
        /\ (Coming' <=> Coming)
        /\ "take_waiting" \notin Labels'
        /\ "start_waiting" \in Labels' \/ "free_token" \in Labels' \/ "acquire" \in Labels'
             => "start_waiting" \in Labels \/ "free_token" \in Labels \/ "acquire" \in Labels
    BY <1>1, <1>2, Shapes DEF Handling, Restarting, Coming, Over, Backs
  <1>4. cur \in Targets /\ cur \notin OnChain /\ ~dying
    BY <1>1, <1>3 DEF Chains, Ends
  <1>5. /\ UNCHANGED <<invocation, recipe, line, commandState, waitingJobs, cur, new, dying, status>>
        /\ Mode' = Mode /\ Tokens' = Tokens
    BY DEF Started, given, files, child, locals, Mode, Tokens
  <1>6. /\ Len(children) \in Nat /\ Len(waitingJobs) \in Nat
        /\ Range(waitingJobs) \subseteq Targets /\ Range(children) \subseteq Targets
    BY <1>1, LenProperties, RangeOfSeq DEF TypedState
  <1>7. jobserverTokens = Len(children) + Len(waitingJobs) + 1
    BY <1>1, <1>3, <1>4 DEF Chains, One
  <1>8. Ends'
    BY <1>1, <1>2, <1>3, <1>4, <1>5 DEF Ends
  <1>9. CASE /\ commandState[cur] = "running"
             /\ children' = <<cur>> \o children
             /\ jobSlotsUsed' = jobSlotsUsed + 1
             /\ UNCHANGED tokens
    <2>1. /\ Len(children') = Len(children) + 1 /\ children' # <<>>
          /\ Range(children') = {cur} \cup Range(children) /\ IsInjective(children')
      <3>1. children \in Seq(Targets) /\ IsInjective(children) /\ cur \notin Range(children)
        BY <1>1, <1>4 DEF TypedState, Chains, OnChain
      <3> QED  BY <1>4, <1>9, <3>1, PushElements
    <2>2. OnChain' = OnChain \cup {cur} /\ Hand' = {} /\ Hand = {cur}
      BY <1>3, <1>5, <2>1 DEF OnChain, Hand
    <2>3. Recipes'
      BY <1>1, <1>5, <2>2 DEF Recipes
    <2>4. Chains'
      BY <1>1, <1>3, <1>4, <1>5, <1>6, <1>7, <1>9, <2>1 DEF Chains, OnChain, One, tokens
    <2>5. States'
      BY <1>1, <1>2, <1>3, <1>5, <1>9, <2>1, <2>2 DEF States
    <2>6. Seen'
      BY <1>1, <1>2, <1>3, <1>5 DEF Seen
    <2>7. Conserved'
      BY <1>1, <1>2, <1>5, <1>9 DEF Conserved, tokens, One
    <2> QED  BY <1>2, <1>8, <2>3, <2>4, <2>5, <2>6, <2>7 DEF Core
  <1>10. CASE /\ commandState[cur] = "finished"
              /\ FreeChild
              /\ UNCHANGED <<children, jobSlotsUsed>>
    <2>1. OnChain' = OnChain /\ Hand' = {} /\ Hand = {cur}
      BY <1>3, <1>5, <1>10 DEF OnChain, Hand
    <2>2. /\ jobserverTokens' = jobserverTokens - 1 /\ UNCHANGED others
          /\ pool' = pool + One(Mode = "jobserver" /\ jobserverTokens > 1)
      BY <1>10 DEF FreeChild
    <2>3. Recipes'
      BY <1>1, <1>5, <2>1 DEF Recipes
    <2>4. Chains'
      BY <1>1, <1>3, <1>4, <1>5, <1>6, <1>7, <1>10, <2>1, <2>2 DEF Chains, One
    <2>5. States'
      BY <1>1, <1>2, <1>3, <1>5, <1>10, <2>1 DEF States
    <2>6. Seen'
      BY <1>1, <1>2, <1>3, <1>5, <1>10 DEF Seen
    <2>7. Conserved'
      <3>1. jobserverTokens \in Nat \ {0} /\ pool \in Nat /\ others \in Nat
        BY <1>1, <1>6, <1>7 DEF TypedState
      <3>2. pc # "have_slot" /\ pc' # "have_slot"
        BY <1>1, <1>2
      <3>3. CASE Mode = "jobserver"
        BY <1>1, <1>5, <2>2, <3>1, <3>2, <3>3 DEF Conserved, One
      <3>4. CASE Mode # "jobserver"
        BY <1>1, <1>5, <2>2, <3>1, <3>4 DEF Conserved, One
      <3> QED  BY <3>3, <3>4
    <2> QED  BY <1>2, <1>8, <2>3, <2>4, <2>5, <2>6, <2>7 DEF Core
  <1> QED  BY <1>9, <1>10 DEF Started

LEMMA StartWaitingJobsCore ==
    ASSUME IInv, StartWaitingJobs
    PROVE  Core'
  <1>1. /\ pc = "start_waiting_jobs" /\ UNCHANGED jobs /\ UNCHANGED <<pool, others>> /\ Frames
        /\ Labels = {"start_waiting_jobs"} \cup Range(stack)
    BY DEF StartWaitingJobs, jobs, files, child, tokens, IInv, Core, Labels
  <1>2. CASE waitingJobs = <<>>
    <2>1. Return
      BY <1>2 DEF StartWaitingJobs
    <2>2. Frames' /\ Labels' = Range(stack) /\ pc' \in Backs
      BY <1>1, <2>1, ReturnFrames
    <2>3. /\ ~Handling /\ ~Handling' /\ ~Restarting /\ ~Restarting' /\ (Coming' <=> Coming)
          /\ (Over' <=> Over) /\ "take_waiting" \notin Labels'
          /\ "start_waiting" \in Labels' \/ "free_token" \in Labels' \/ "acquire" \in Labels'
               => "start_waiting" \in Labels \/ "free_token" \in Labels \/ "acquire" \in Labels
          /\ pc' \notin {"exited", "start_waiting_job", "start", "acquire", "have_slot"}
      BY <1>1, <2>2, Shapes DEF Handling, Restarting, Coming, Over, Backs
    <2> QED  BY <1>1, <1>2, <2>2, <2>3, QuietCore DEF Core
  <1>3. CASE waitingJobs # <<>>
    <2>1. Call("reap", "take_waiting")
      BY <1>3 DEF StartWaitingJobs, ReapThen
    <2>2. Frames' /\ Labels' = {"reap", "take_waiting"} \cup Range(stack) /\ pc' = "reap"
      BY <1>1, <2>1, CallFrames DEF Words, Call
    <2>3. /\ ~Handling /\ ~Handling' /\ ~Restarting /\ ~Restarting' /\ (Coming' <=> Coming)
          /\ (Over' <=> Over)
          /\ "start_waiting" \in Labels' \/ "free_token" \in Labels' \/ "acquire" \in Labels'
               => "start_waiting" \in Labels \/ "free_token" \in Labels \/ "acquire" \in Labels
      BY <1>1, <2>2, Shapes DEF Handling, Restarting, Coming, Over, Backs
    <2> QED  BY <1>1, <1>3, <2>2, <2>3, QuietCore DEF Core
  <1> QED  BY <1>2, <1>3

LEMMA TakeWaitingCore ==
    ASSUME IInv, TakeWaiting
    PROVE  Core'
  <1>1. /\ TypedFiles /\ TypedState /\ Frames /\ Chains /\ Recipes /\ States /\ Seen /\ Ends /\ Conserved
        /\ pc = "take_waiting" /\ Labels = {"take_waiting"} \cup Range(stack)
    BY DEF IInv, Typed, Core, TakeWaiting, Labels
  <1>2. /\ Frames' /\ Labels' = {"start_waiting_job", "start_waiting_jobs"} \cup Range(stack)
        /\ pc' = "start_waiting_job"
    BY <1>1, CallFrames DEF Words, TakeWaiting, Call
  <1>3. /\ ~Handling /\ Handling' /\ ~Restarting /\ ~Restarting' /\ ~Over /\ ~Over'
        /\ (Coming' <=> Coming) /\ "take_waiting" \notin Labels' /\ "linear" \notin Labels'
        /\ "start_waiting" \in Labels' \/ "free_token" \in Labels' \/ "acquire" \in Labels'
             => "start_waiting" \in Labels \/ "free_token" \in Labels \/ "acquire" \in Labels
    BY <1>1, <1>2, Shapes DEF Handling, Restarting, Coming, Over, Backs
  <1>4. /\ UNCHANGED <<invocation, recipe, line, commandState, children, jobSlotsUsed, jobserverTokens,
                       pool, others, new, dying, status>>
        /\ Mode' = Mode /\ Tokens' = Tokens
        /\ cur' = Head(waitingJobs) /\ waitingJobs' = Tail(waitingJobs)
    BY DEF TakeWaiting, given, files, child, tokens, Mode, Tokens
  <1>5. waitingJobs # <<>> /\ ~dying
    BY <1>1, <1>3 DEF Seen, Ends
  <1>6. /\ cur' \in Targets /\ waitingJobs' \in Seq(Targets) /\ Len(waitingJobs') = Len(waitingJobs) - 1
        /\ Range(waitingJobs) = Range(waitingJobs') \cup {cur'}
        /\ IsInjective(waitingJobs') /\ cur' \notin Range(waitingJobs')
    <2>1. waitingJobs \in Seq(Targets) /\ IsInjective(waitingJobs)
      BY <1>1 DEF TypedState, Chains
    <2> QED  BY <1>4, <1>5, <2>1, TailElements
  <1>7. /\ Len(children) \in Nat /\ Len(waitingJobs) \in Nat
        /\ Range(children) \subseteq Targets
    BY <1>1, LenProperties, RangeOfSeq DEF TypedState
  <1>8. OnChain = OnChain' \cup {cur'} /\ cur' \notin OnChain' /\ Hand' = {cur'} /\ Hand = {}
    BY <1>1, <1>3, <1>4, <1>6 DEF OnChain, Hand, Chains
  <1>9. Recipes'
    BY <1>1, <1>4, <1>8 DEF Recipes
  <1>10. Chains'
    BY <1>1, <1>3, <1>4, <1>5, <1>6, <1>7, <1>8 DEF Chains, OnChain, One
  <1>11. States'
    <2>1. commandState[cur'] = "running"
      BY <1>1, <1>6 DEF States
    <2> QED  BY <1>1, <1>2, <1>3, <1>4, <1>6, <1>8, <2>1 DEF States
  <1>12. Seen'
    BY <1>1, <1>2, <1>3, <1>4 DEF Seen
  <1>13. Ends'
    BY <1>1, <1>2, <1>3, <1>4, <1>5 DEF Ends
  <1>14. Conserved'
    BY <1>1, <1>2, <1>4 DEF Conserved, One
  <1> QED  BY <1>2, <1>9, <1>10, <1>11, <1>12, <1>13, <1>14 DEF Core

LEMMA WaitingCore ==
    ASSUME IInv, WaitingJobs
    PROVE  Core'
  BY QueueJobCore, StartNowCore, StartedCore, StartWaitingJobsCore, TakeWaitingCore DEF WaitingJobs

-----------------------------------------------------------------------------
(* new_job(), update_goal_chain() and die().                               *)

LEMMA NewJobCore ==
    ASSUME IInv, NEW t \in Targets, NewJob(t)
    PROVE  Core'
  <1>1. /\ TypedFiles /\ TypedState /\ Frames /\ Chains /\ Recipes /\ States /\ Seen /\ Ends /\ Conserved
        /\ pc = "chain" /\ Labels = {"chain"}
    BY Shapes DEF IInv, Typed, Core, NewJob, Labels, Flat
  <1>2. /\ Frames' /\ Labels' = {"start_waiting_jobs", "reap_before"} /\ pc' = "start_waiting_jobs"
    BY <1>1, CallFrames, Shapes DEF Words, Flat, Backs, NewJob, Call
  <1>3. /\ UNCHANGED <<invocation, recipe, line, commandState, children, waitingJobs, jobSlotsUsed,
                       jobserverTokens, pool, others, cur, dying, status>>
        /\ Mode' = Mode /\ Tokens' = Tokens /\ OnChain' = OnChain
        /\ new' = t /\ commandState[t] = "not_started"
    BY DEF NewJob, given, files, child, chains, tokens, Mode, Tokens, OnChain
  <1>4. ~Handling /\ ~Handling' /\ ~Restarting /\ ~Restarting' /\ ~Over /\ ~Over'
    BY <1>1, <1>2 DEF Handling, Restarting, Over
  <1>5. Recipes' /\ Chains'
    BY <1>1, <1>2, <1>3, <1>4 DEF Recipes, Chains, Hand, One
  <1>6. States' /\ Seen'
    BY <1>1, <1>2, <1>3, <1>4 DEF States, Seen, Hand
  <1>7. Ends' /\ Conserved'
    BY <1>1, <1>2, <1>3, <1>4 DEF Ends, Conserved, One
  <1> QED  BY <1>2, <1>5, <1>6, <1>7 DEF Core

(* kmk calls reap_children() or start_waiting_jobs().                      *)
LEMMA CallsCore ==
    ASSUME IInv, UNCHANGED jobs, UNCHANGED <<pool, others>>,
           \/ pc = "reap_before"   /\ Call("reap", "wait_slot")
           \/ pc = "wait_slot"     /\ Call("reap", "wait_slot")
           \/ pc = "wait_slot"     /\ Call("reap", "start_waiting") /\ Mode = "jobserver"
           \/ pc = "start_waiting" /\ Call("start_waiting_jobs", "free_token")
           \/ pc = "linear"        /\ Call("reap", "linear")
           \/ pc = "chain"         /\ Call("start_waiting_jobs", "reap_round")
           \/ pc = "reap_round"    /\ Call("reap", "chain")
           \/ pc = "die"           /\ Call("reap", "die")
    PROVE  Core'
  <1>1. Frames /\ pc \in Flat
    BY DEF IInv, Core, Flat
  <1>2. Range(stack) = {} /\ Labels = {pc}
    BY <1>1, Shapes DEF Labels
  <1>3. PICK label \in {"reap", "start_waiting_jobs"}, back \in Bottoms \cup Backs :
          /\ Call(label, back)
          /\ label = "reap" => back \in Bottoms
          /\ label = "start_waiting_jobs" => back \in Backs
          /\ back = "start_waiting" => Mode = "jobserver"
          /\ back = "free_token" => pc = "start_waiting"
          /\ back \in {"wait_slot", "start_waiting"} => pc \in {"reap_before", "wait_slot"}
          /\ back = "die" <=> pc = "die"
          /\ back # "reap_before"
    BY DEF Bottoms, Backs
  <1>4. back \in Words
    BY DEF Bottoms, Backs, Words, Flat
  <1>5. /\ Frames' /\ Labels' = {label, back} /\ pc' = label
    BY <1>1, <1>2, <1>3, <1>4, CallFrames DEF Call
  <1>6. /\ ~Handling /\ ~Handling' /\ ~Restarting /\ ~Restarting' /\ (Coming' => Coming)
        /\ (Over' <=> Over) /\ "take_waiting" \notin Labels'
        /\ "start_waiting" \in Labels' \/ "free_token" \in Labels' \/ "acquire" \in Labels'
             => \/ Mode = "jobserver"
                \/ "start_waiting" \in Labels \/ "free_token" \in Labels \/ "acquire" \in Labels
        /\ pc # "exited" /\ pc # "have_slot"
    BY <1>2, <1>3, <1>5 DEF Handling, Restarting, Coming, Over, Bottoms, Backs
  <1> QED  BY <1>3, <1>5, <1>6, QuietCore DEF Core

(* new_job() goes on.                                                      *)
LEMMA GoesOnCore ==
    ASSUME IInv, UNCHANGED jobs, UNCHANGED <<pool, others>>,
           \/ pc = "wait_slot" /\ HaveSlot /\ Goto("have_slot")
           \/ pc = "free_token" /\ IF jobserverTokens = 0 THEN Goto("have_slot") ELSE Goto("acquire")
           \/ pc = "acquire" /\ Goto("wait_slot")
           \/ pc = "linear" /\ Goto("chain")
    PROVE  Core'
  <1>1. /\ TypedFiles /\ TypedState /\ Frames /\ Chains /\ Seen /\ Ends /\ Conserved
        /\ pc \in Flat /\ Labels = {pc}
    BY Shapes DEF IInv, Typed, Core, Flat, Labels
  <1>2. PICK label \in {"have_slot", "acquire", "wait_slot", "chain"} :
          /\ Goto(label)
          /\ label = "have_slot" => (Mode = "jobserver" => jobserverTokens = 0)
          /\ label = "acquire" => pc = "free_token" /\ jobserverTokens # 0
          /\ label # "chain" => pc \in {"wait_slot", "free_token", "acquire"}
          /\ pc \notin {"exited", "have_slot", "die"}
    BY DEF HaveSlot
  <1>3. Frames' /\ Labels' = {label} /\ pc' = label
    BY <1>1, <1>2, GotoFrames DEF Flat, Goto
  <1>4. /\ ~Handling /\ ~Handling' /\ ~Restarting /\ ~Restarting' /\ (Coming' => Coming)
        /\ ~Over' /\ ~Over /\ "take_waiting" \notin Labels'
        /\ "start_waiting" \in Labels' \/ "free_token" \in Labels' \/ "acquire" \in Labels'
             => "start_waiting" \in Labels \/ "free_token" \in Labels \/ "acquire" \in Labels
    BY <1>1, <1>2, <1>3 DEF Handling, Restarting, Coming, Over
  <1>5. pc' = "acquire" => children # <<>>
    <2>1. SUFFICES ASSUME pc' = "acquire", children = <<>> PROVE FALSE
      OBVIOUS
    <2>2. jobserverTokens # 0 /\ waitingJobs = <<>> /\ ~dying
      BY <1>1, <1>2, <1>3, <1>4, <2>1 DEF Seen, Ends
    <2>3. Len(children) = 0 /\ Len(waitingJobs) = 0
      BY <2>1, <2>2
    <2> QED  BY <1>1, <1>4, <2>2, <2>3 DEF Chains, One
  <1>6. Conserved'
    <2>1. UNCHANGED <<pool, others, jobserverTokens>> /\ Mode' = Mode /\ Tokens' = Tokens
      BY DEF jobs, given, Mode, Tokens
    <2> QED  BY <1>1, <1>2, <1>3, <2>1 DEF Conserved, One
  <1>7. Recipes' /\ Chains' /\ States' /\ Seen' /\ Ends'
    BY <1>2, <1>3, <1>4, <1>5, QuietCore
  <1> QED  BY <1>3, <1>6, <1>7 DEF Core

LEMMA AcquireCore ==
    ASSUME IInv, Acquire
    PROVE  Core'
  <1>1. /\ TypedFiles /\ TypedState /\ Frames /\ Chains /\ Seen /\ Ends /\ Conserved
        /\ pc = "acquire" /\ Labels = {"acquire"} /\ UNCHANGED jobs /\ UNCHANGED others
    BY Shapes DEF IInv, Typed, Core, Flat, Labels, Acquire, jobs, files, child, locals
  <1>2. CASE pool > 0 /\ pool' = pool - 1 /\ Goto("have_slot")
    <2>1. Frames' /\ Labels' = {"have_slot"} /\ pc' = "have_slot"
      BY <1>1, <1>2, GotoFrames DEF Flat, Goto
    <2>2. /\ ~Handling /\ ~Handling' /\ ~Restarting /\ ~Restarting' /\ Coming
          /\ ~Over' /\ ~Over
      BY <1>1, <2>1 DEF Handling, Restarting, Coming, Over
    <2>3. Recipes' /\ Chains' /\ States' /\ Seen' /\ Ends'
      BY <1>1, <2>1, <2>2, QuietCore
    <2>4. Conserved'
      <3>1. UNCHANGED <<others, jobserverTokens>> /\ Mode' = Mode /\ Tokens' = Tokens
        BY <1>1 DEF jobs, given, Mode, Tokens
      <3>2. Mode = "jobserver" /\ children # <<>> /\ ~dying
        BY <1>1, <2>2 DEF Seen, Ends
      <3>3. Len(children) \in Nat \ {0} /\ Len(waitingJobs) \in Nat
        BY <1>1, <3>2, EmptySeq, LenProperties DEF TypedState
      <3>4. jobserverTokens \in Nat \ {0} /\ pool \in Nat /\ others \in Nat
        BY <1>1, <2>2, <3>2, <3>3 DEF Chains, One, TypedState
      <3> QED  BY <1>1, <1>2, <2>1, <3>1, <3>2, <3>4 DEF Conserved, One
    <2> QED  BY <2>1, <2>3, <2>4 DEF Core
  <1>3. CASE Goto("wait_slot") /\ UNCHANGED pool
    BY <1>1, <1>3, GoesOnCore
  <1> QED  BY <1>2, <1>3 DEF Acquire

LEMMA StartNewJobCore ==
    ASSUME IInv, StartNewJob
    PROVE  Core'
  <1>1. /\ TypedFiles /\ TypedState /\ Frames /\ Chains /\ Recipes /\ States /\ Seen /\ Ends /\ Conserved
        /\ pc = "have_slot" /\ Labels = {"have_slot"}
    BY Shapes DEF IInv, Typed, Core, StartNewJob, Labels, Flat
  <1>2. Frames' /\ Labels' = {"start_waiting_job", "linear"} /\ pc' = "start_waiting_job"
    BY <1>1, CallFrames, Shapes DEF Words, Flat, StartNewJob, Call
  <1>3. /\ UNCHANGED <<invocation, recipe, line, commandState, children, waitingJobs, jobSlotsUsed,
                       pool, others, new, dying, status>>
        /\ Mode' = Mode /\ Tokens' = Tokens /\ OnChain' = OnChain
        /\ cur' = new /\ jobserverTokens' = jobserverTokens + 1
    BY DEF StartNewJob, given, files, child, chains, Mode, Tokens, OnChain
  <1>4. ~Handling /\ Handling' /\ ~Restarting /\ ~Restarting' /\ ~Over /\ ~Over' /\ Coming /\ ~Coming'
    BY <1>1, <1>2 DEF Handling, Restarting, Over, Coming
  <1>5. new \in Targets /\ commandState[new] = "not_started" /\ ~dying
    BY <1>1, <1>4 DEF States, Ends
  <1>6. new \notin OnChain
    BY <1>1, <1>4, <1>5 DEF States, OnChain
  <1>7. Hand' = {new} /\ Hand = {}
    BY <1>3, <1>4 DEF Hand
  <1>8. Recipes'
    BY <1>1, <1>3, <1>5, <1>7 DEF Recipes
  <1>9. Chains'
    <2>1. Len(children) \in Nat /\ Len(waitingJobs) \in Nat
      BY <1>1, LenProperties DEF TypedState
    <2> QED  BY <1>1, <1>3, <1>4, <1>5, <1>6, <2>1 DEF Chains, One
  <1>10. States' /\ Seen'
    BY <1>1, <1>2, <1>3, <1>4, <1>5, <1>7 DEF States, Seen
  <1>11. Ends'
    BY <1>1, <1>2, <1>3, <1>4, <1>5 DEF Ends
  <1>12. Conserved'
    <2>1. jobserverTokens \in Nat /\ pool \in Nat /\ others \in Nat
      BY <1>1 DEF TypedState
    <2> QED  BY <1>1, <1>2, <1>3, <2>1 DEF Conserved, One
  <1> QED  BY <1>2, <1>8, <1>9, <1>10, <1>11, <1>12 DEF Core

LEMMA NewJobStepsCore ==
    ASSUME IInv, NewJobSteps
    PROVE  Core'
  <1>1. CASE ReapBefore \/ StartWaiting \/ (WaitSlot /\ ~HaveSlot)
    <2>1. UNCHANGED jobs /\ UNCHANGED <<pool, others>>
      BY <1>1 DEF ReapBefore, StartWaiting, WaitSlot, jobs, files, child, tokens, locals
    <2>2. \/ pc = "reap_before"   /\ Call("reap", "wait_slot")
          \/ pc = "wait_slot"     /\ Call("reap", "wait_slot")
          \/ pc = "wait_slot"     /\ Call("reap", "start_waiting") /\ Mode = "jobserver"
          \/ pc = "start_waiting" /\ Call("start_waiting_jobs", "free_token")
      BY <1>1 DEF ReapBefore, StartWaiting, WaitSlot, ReapThen
    <2> QED  BY <2>1, <2>2, CallsCore
  <1>2. CASE FreeToken \/ (WaitSlot /\ HaveSlot)
    <2>1. UNCHANGED jobs /\ UNCHANGED <<pool, others>>
      BY <1>2 DEF FreeToken, WaitSlot, jobs, files, child, tokens, locals
    <2>2. \/ pc = "wait_slot" /\ HaveSlot /\ Goto("have_slot")
          \/ pc = "free_token" /\ IF jobserverTokens = 0 THEN Goto("have_slot") ELSE Goto("acquire")
      BY <1>2 DEF FreeToken, WaitSlot
    <2> QED  BY <2>1, <2>2, GoesOnCore
  <1>3. CASE Linear
    <2>1. UNCHANGED jobs /\ UNCHANGED <<pool, others>> /\ pc = "linear"
      BY <1>3 DEF Linear, jobs, files, child, tokens
    <2>2. Call("reap", "linear") \/ Goto("chain")
      BY <1>3 DEF Linear, ReapThen
    <2> QED  BY <2>1, <2>2, CallsCore, GoesOnCore
  <1> QED  BY <1>1, <1>2, <1>3, AcquireCore, StartNewJobCore DEF NewJobSteps

LEMMA LastRoundCore ==
    ASSUME IInv, LastRound
    PROVE  Core'
  <1>1. /\ TypedFiles /\ TypedState /\ Frames /\ Chains /\ Recipes /\ States /\ Seen /\ Ends /\ Conserved
        /\ pc = "chain" /\ Labels = {"chain"}
    BY Shapes DEF IInv, Typed, Core, LastRound, Labels, Flat
  <1>2. Frames' /\ Labels' = {"die"} /\ pc' = "die"
    BY <1>1, GotoFrames DEF Flat, LastRound, Goto
  <1>3. /\ UNCHANGED <<invocation, recipe, line, commandState, children, waitingJobs, jobSlotsUsed,
                       jobserverTokens, pool, others, cur, new>>
        /\ Mode' = Mode /\ Tokens' = Tokens /\ OnChain' = OnChain
        /\ dying' = TRUE
        /\ status' = 0 => \A u \in Targets : commandState[u] # "running"
    BY DEF LastRound, given, files, child, chains, tokens, Mode, Tokens, OnChain
  <1>4. /\ ~Handling /\ ~Handling' /\ ~Restarting /\ ~Restarting' /\ ~Over /\ Over' /\ ~Coming'
        /\ Hand = {} /\ Hand' = {}
    BY <1>1, <1>2 DEF Handling, Restarting, Over, Coming, Hand
  <1>5. ~dying
    BY <1>1, <1>4 DEF Ends
  <1>6. /\ Len(children) \in Nat /\ Len(waitingJobs) \in Nat
        /\ children # <<>> => Len(children) > 0
        /\ waitingJobs # <<>> => Len(waitingJobs) > 0
        /\ \A i \in 1 .. Len(children) : children[i] \in Targets /\ children[i] \in Range(children)
        /\ \A i \in 1 .. Len(waitingJobs) : waitingJobs[i] \in Targets /\ waitingJobs[i] \in Range(waitingJobs)
    BY <1>1, LenProperties, EmptySeq DEF TypedState, Range
  <1>7. Recipes' /\ Chains'
    BY <1>1, <1>2, <1>3, <1>4, <1>5, <1>6 DEF Recipes, Chains, One
  <1>8. States' /\ Seen'
    BY <1>1, <1>2, <1>3, <1>4 DEF States, Seen
  <1>9. Ends'
    <2>1. SUFFICES ASSUME status' = 0
                   PROVE  children = <<>> /\ waitingJobs = <<>> /\ jobserverTokens = 0
      BY <1>2, <1>3, <1>4 DEF Ends
    <2>2. \A u \in Targets : commandState[u] # "running"
      BY <1>3, <2>1
    <2>3. children = <<>>
      <3>1. SUFFICES ASSUME children # <<>> PROVE FALSE
        OBVIOUS
      <3>2. children[1] \in Targets /\ children[1] \in Range(children)
        BY <1>6, <3>1
      <3> QED  BY <1>1, <1>4, <2>2, <3>2 DEF States
    <2>4. waitingJobs = <<>>
      <3>1. SUFFICES ASSUME waitingJobs # <<>> PROVE FALSE
        OBVIOUS
      <3>2. waitingJobs[1] \in Targets /\ waitingJobs[1] \in Range(waitingJobs)
        BY <1>6, <3>1
      <3> QED  BY <1>1, <2>2, <3>2 DEF States
    <2>5. Len(children) = 0 /\ Len(waitingJobs) = 0
      BY <2>3, <2>4
    <2> QED  BY <1>1, <1>4, <1>5, <2>3, <2>4, <2>5 DEF Chains, One
  <1>10. Conserved'
    BY <1>1, <1>2, <1>3 DEF Conserved, One
  <1> QED  BY <1>2, <1>7, <1>8, <1>9, <1>10 DEF Core

LEMMA CleanJobserverCore ==
    ASSUME IInv, CleanJobserver
    PROVE  Core'
  <1>1. /\ TypedFiles /\ TypedState /\ Frames /\ Chains /\ Recipes /\ States /\ Seen /\ Ends /\ Conserved
        /\ pc = "die" /\ Labels = {"die"}
    BY Shapes DEF IInv, Typed, Core, CleanJobserver, Labels, Flat
  <1>2. Frames' /\ Labels' = {"exited"} /\ pc' = "exited"
    BY <1>1, GotoFrames DEF Flat, CleanJobserver, Goto
  <1>3. /\ UNCHANGED <<invocation, recipe, line, commandState, children, waitingJobs, jobSlotsUsed,
                       others, cur, new, dying, status>>
        /\ Mode' = Mode /\ Tokens' = Tokens /\ OnChain' = OnChain
    BY DEF CleanJobserver, given, files, child, chains, locals, Mode, Tokens, OnChain
  <1>4. /\ ~Handling /\ ~Handling' /\ ~Restarting /\ ~Restarting' /\ Over /\ Over' /\ ~Coming'
        /\ Hand = {} /\ Hand' = {}
    BY <1>1, <1>2 DEF Handling, Restarting, Over, Coming, Hand
  <1>5. dying /\ jobserverTokens \in Nat /\ pool \in Nat /\ others \in Nat
    BY <1>1, <1>4 DEF Ends, TypedState
  <1>6. Recipes' /\ Chains'
    BY <1>1, <1>2, <1>3, <1>4, <1>5 DEF Recipes, Chains
  <1>7. States' /\ Seen'
    BY <1>1, <1>2, <1>3, <1>4 DEF States, Seen
  <1>8. CASE Mode = "jobserver" /\ jobserverTokens > 0 /\ status = 2
    <2>1. pool' = pool + jobserverTokens - 1 /\ jobserverTokens' = 0
      BY <1>8 DEF CleanJobserver
    <2>2. Ends'
      BY <1>2, <1>3, <1>4, <1>5, <1>8, <2>1 DEF Ends
    <2>3. Conserved'
      BY <1>1, <1>2, <1>3, <1>5, <1>8, <2>1 DEF Conserved, One
    <2> QED  BY <1>2, <1>6, <1>7, <2>2, <2>3 DEF Core
  <1>9. CASE ~(Mode = "jobserver" /\ jobserverTokens > 0 /\ status = 2)
    <2>1. pool' = pool /\ jobserverTokens' = jobserverTokens
      BY <1>9 DEF CleanJobserver
    <2>2. Ends'
      <3>1. status \in 0 .. 2
        BY <1>1 DEF TypedState
      <3> QED  BY <1>1, <1>2, <1>3, <1>4, <1>5, <1>9, <2>1, <3>1 DEF Ends
    <2>3. Conserved'
      BY <1>1, <1>2, <1>3, <2>1 DEF Conserved, One
    <2> QED  BY <1>2, <1>6, <1>7, <2>2, <2>3 DEF Core
  <1> QED  BY <1>8, <1>9

LEMMA RoundsCore ==
    ASSUME IInv, NextRound \/ ReapRound \/ LastRound \/ DieReaps \/ CleanJobserver
    PROVE  Core'
  <1>1. CASE NextRound \/ ReapRound \/ DieReaps
    <2>1. UNCHANGED jobs /\ UNCHANGED <<pool, others>>
      BY <1>1 DEF NextRound, ReapRound, DieReaps, jobs, files, child, tokens, locals
    <2>2. \/ pc = "chain"      /\ Call("start_waiting_jobs", "reap_round")
          \/ pc = "reap_round" /\ Call("reap", "chain")
          \/ pc = "die"        /\ Call("reap", "die")
      BY <1>1 DEF NextRound, ReapRound, DieReaps, ReapThen
    <2> QED  BY <2>1, <2>2, CallsCore
  <1> QED  BY <1>1, LastRoundCore, CleanJobserverCore

LEMMA StepInv == IInv /\ [Next]_vars => IInv'
  <1> SUFFICES ASSUME IInv, [Next]_vars PROVE IInv'
    OBVIOUS
  <1>1. Typed'
    BY StepType
  <1>2. Core'
    BY StartCore, ReapCore, WaitingCore, NewJobStepsCore, NewJobCore, RoundsCore, OutsideCore
       DEF Next, Kmk
  <1> QED  BY <1>1, <1>2 DEF IInv

LEMMA Invariance == Spec => []IInv
  BY InitInv, StepInv, PTL DEF Spec

-----------------------------------------------------------------------------
(* What follows.                                                           *)

LEMMA HandIsInHand == ASSUME Frames PROVE InHand = Hand
  <1>1. Labels = {pc} \cup Range(stack)
    BY DEF Labels
  <1>2. CASE pc \notin {"start", "start_waiting_job", "started"}
    BY <1>1, <1>2, Shapes DEF InHand, Hand, Handling, Words, Bottoms, Backs
  <1>3. CASE pc \in {"start_waiting_job", "started"}
    BY <1>1, <1>3 DEF InHand, Hand, Handling
  <1>4. CASE pc = "start" /\ \E r \in Reapers : stack = <<"reap_started">> \o r
    <2>1. PICK r \in Reapers : stack = <<"reap_started">> \o r
      BY <1>4
    <2>2. Head(stack) = "reap_started" /\ Range(stack) = {"reap_started"} \cup Range(r)
      BY <2>1, ReapersFacts, PushElements DEF Words
    <2>3. "started" \notin Range(r) /\ "start_waiting_job" \notin Range(r)
      BY ReaperLabels DEF Bottoms, Backs
    <2> QED  BY <1>1, <1>4, <2>2, <2>3 DEF InHand, Hand, Handling
  <1>5. CASE pc = "start" /\ \E s \in Starters : stack = <<"started">> \o s
    <2>1. PICK s \in Starters : stack = <<"started">> \o s
      BY <1>5
    <2>2. Head(stack) = "started" /\ Range(stack) = {"started"} \cup Range(s)
      BY <2>1, StartersFacts, PushElements DEF Words
    <2> QED  BY <1>1, <1>5, <2>2 DEF InHand, Hand, Handling
  <1> QED  BY <1>2, <1>3, <1>4, <1>5 DEF Frames, Flat

(* Every variable keeps to its type, and the pipe never holds more than    *)
(* the top make wrote into it.                                             *)
THEOREM TypeCorrect == Spec => []TypeOK
  <1>1. ASSUME IInv PROVE TypeOK
    <2>1. TypedFiles /\ TypedState /\ Recipes /\ Conserved /\ Mode \in Modes /\ Tokens \in Nat
      BY <1>1, Given DEF IInv, Typed, Core
    <2>2. pool \in 0 .. Tokens /\ others \in 0 .. Tokens
      <3>1. pool \in Nat /\ others \in Nat /\ jobserverTokens \in Nat
        BY <2>1 DEF TypedState
      <3>2. CASE Mode = "jobserver"
        BY <2>1, <3>1, <3>2 DEF Conserved, One
      <3>3. CASE Mode # "jobserver"
        BY <2>1, <3>1, <3>3 DEF Conserved
      <3> QED  BY <3>2, <3>3
    <2>3. \A t \in Targets : line[t] \in DOMAIN recipe[t] \/ recipe[t] = <<>>
      BY <2>1 DEF Recipes
    <2> QED  BY <2>1, <2>2, <2>3 DEF TypeOK, TypedFiles, TypedState
  <1> QED  BY <1>1, Invariance, PTL

(* Every job in progress is on one chain, once, and has a token; the       *)
(* counters never go wrong, whatever order the children die in, and kmk    *)
(* never sleeps on the pipe without a child.                               *)
THEOREM Accounted == Spec => []JobsAccounted
  <1>1. ASSUME IInv PROVE JobsAccounted
    <2>1. TypedState /\ Frames /\ Chains /\ States /\ Seen
      BY <1>1 DEF IInv, Typed, Core
    <2>2. InHand = Hand /\ (Hand = IF Handling THEN {cur} ELSE {})
      BY <2>1, HandIsInHand DEF Hand
    <2>3. /\ IsFiniteSet(Range(children)) /\ Cardinality(Range(children)) = Len(children)
          /\ IsFiniteSet(Range(waitingJobs)) /\ Cardinality(Range(waitingJobs)) = Len(waitingJobs)
          /\ Len(children) \in Nat /\ Len(waitingJobs) \in Nat
      BY <2>1, DistinctCardinality, LenProperties DEF TypedState, Chains
    <2>4. IsFiniteSet(Hand) /\ Cardinality(Hand) = One(Handling)
      BY <2>2, FS_Singleton, FS_EmptySet DEF One
    <2>5. /\ Range(children) \cap Range(waitingJobs) = {}
          /\ (Range(children) \cup Range(waitingJobs)) \cap Hand = {}
      BY <2>1, <2>2 DEF Chains, OnChain
    <2>6. /\ IsFiniteSet(Range(children) \cup Range(waitingJobs))
          /\ Cardinality(Range(children) \cup Range(waitingJobs))
                = Cardinality(Range(children)) + Cardinality(Range(waitingJobs))
      BY <2>3, <2>5, DisjointUnion, Zenon
    <2>6a. Cardinality((Range(children) \cup Range(waitingJobs)) \cup Hand)
             = Cardinality(Range(children) \cup Range(waitingJobs)) + Cardinality(Hand)
      BY <2>4, <2>5, <2>6, DisjointUnion, Zenon
    <2>7. Cardinality(Range(children) \cup Range(waitingJobs) \cup Hand)
             = Len(children) + Len(waitingJobs) + One(Handling)
      BY <2>3, <2>4, <2>6, <2>6a
    <2>8. pc = "chain" => \A t \in Targets : commandState[t] = "running"
                             <=> t \in Range(children) \cup Range(waitingJobs)
      <3>1. SUFFICES ASSUME pc = "chain"
                     PROVE  \A t \in Targets : commandState[t] = "running" <=> t \in OnChain
        BY DEF OnChain
      <3>2. Labels = {"chain"}
        BY <2>1, <3>1, Shapes DEF Labels, Flat
      <3>3. ~Handling /\ ~Restarting
        BY <3>2 DEF Handling, Restarting
      <3> QED  BY <2>1, <2>2, <3>3 DEF States, OnChain
    <2> QED  BY <2>1, <2>2, <2>4, <2>7, <2>8 DEF JobsAccounted, Chains, Seen
  <1> QED  BY <1>1, Invariance, PTL

(* No jobserver token is lost or made up, and unless -q ended it kmk has   *)
(* none left when it exits.                                                *)
THEOREM TokensKept == Spec => []TokensConserved
  <1>1. ASSUME IInv PROVE TokensConserved
    BY <1>1 DEF IInv, Core, Conserved, Ends, TokensConserved
  <1> QED  BY <1>1, Invariance, PTL

-----------------------------------------------------------------------------
(* .NOTPARALLEL: not_parallel counts the jobs of not-parallel files that   *)
(* run, wait, or are being started; a job in the hands of                  *)
(* start_waiting_job() is counted from the moment it goes on to            *)
(* start_job_command(), until that says the file is finished.              *)

Counted == {t \in OnChain \cup (IF "started" \in Labels THEN {cur} ELSE {}) :
              commandState[t] # "finished"}

Counts ==
    /\ alone = {} => notParallel \in {0, -1}
    /\ alone # {} => notParallel >= Cardinality(alone \cap Counted)
    /\ alone # {} /\ ~Question /\ ~ForkFails => notParallel = Cardinality(alone \cap Counted)

(* A job that is being started will not share the chain with a             *)
(* not-parallel one.                                                       *)
AloneNext == "started" \in Labels => children = <<>> \/ (cur \notin alone /\ alone \cap Range(children) = {})

Parallel == Counts /\ NotParallelAlone /\ AloneNext

LEMMA CountStep ==
    ASSUME IInv, Counts, UNCHANGED given, NEW t,
           \/ Counted' = Counted /\ notParallel' = notParallel
           \/ t \notin Counted /\ Counted' = Counted \cup {t} /\ notParallel' = notParallel + One(t \in alone)
           \/ t \in Counted /\ Counted' = Counted \ {t} /\ notParallel' = notParallel - One(t \in alone)
           \/ (Question \/ ForkFails) /\ Counted' = Counted \ {t} /\ notParallel' = notParallel
    PROVE  Counts'
  <1> DEFINE K == alone \cap Counted
  <1>1. IsFiniteSet(K) /\ Cardinality(K) \in Nat /\ notParallel \in Int
    <2>1. IsFiniteSet(Targets) /\ alone \subseteq Targets /\ notParallel \in Int
      BY Given DEF IInv, Typed, TypedFiles, TypedState
    <2>2. IsFiniteSet(alone)
      BY <2>1, FS_Subset
    <2> QED  BY <2>1, <2>2, FS_Subset, FS_CardinalityType
  <1>2. alone' = alone /\ Question' = Question /\ ForkFails' = ForkFails /\ K' = alone \cap Counted'
    BY DEF given, Question, ForkFails
  <1>3. /\ Cardinality(K \cup {t}) = IF t \in K THEN Cardinality(K) ELSE Cardinality(K) + 1
        /\ Cardinality(K \ {t}) = IF t \in K THEN Cardinality(K) - 1 ELSE Cardinality(K)
    BY <1>1, FS_AddElement, FS_RemoveElement
  <1>4. CASE Counted' = Counted /\ notParallel' = notParallel
    BY <1>2, <1>4 DEF Counts
  <1>5. CASE t \notin Counted /\ Counted' = Counted \cup {t} /\ notParallel' = notParallel + One(t \in alone)
    <2>1. CASE t \in alone
      <3>1. t \notin K /\ K' = K \cup {t} /\ alone # {}
        BY <1>2, <1>5, <2>1
      <3>2. Cardinality(K') = Cardinality(K) + 1 /\ notParallel' = notParallel + 1
        BY <1>3, <1>5, <2>1, <3>1 DEF One
      <3> HIDE DEF K
      <3> QED  BY <1>1, <1>2, <3>1, <3>2 DEF Counts, K
    <2>2. CASE t \notin alone
      <3>1. K' = K /\ notParallel' = notParallel
        BY <1>1, <1>2, <1>5, <2>2 DEF One
      <3> QED  BY <1>2, <3>1 DEF Counts
    <2> QED  BY <2>1, <2>2
  <1>6. CASE t \in Counted /\ Counted' = Counted \ {t} /\ notParallel' = notParallel - One(t \in alone)
    <2>1. CASE t \in alone
      <3>1. t \in K /\ K' = K \ {t} /\ alone # {}
        BY <1>2, <1>6, <2>1
      <3>2. Cardinality(K') = Cardinality(K) - 1 /\ notParallel' = notParallel - 1
        BY <1>3, <1>6, <2>1, <3>1 DEF One
      <3> HIDE DEF K
      <3> QED  BY <1>1, <1>2, <3>1, <3>2 DEF Counts, K
    <2>2. CASE t \notin alone
      <3>1. K' = K /\ notParallel' = notParallel
        BY <1>1, <1>2, <1>6, <2>2 DEF One
      <3> QED  BY <1>2, <3>1 DEF Counts
    <2> QED  BY <2>1, <2>2
  <1>7. CASE (Question \/ ForkFails) /\ Counted' = Counted \ {t} /\ notParallel' = notParallel
    <2>1. K' = K \ {t}
      BY <1>2, <1>7
    <2>2. Cardinality(K') = Cardinality(K) - 1 \/ Cardinality(K') = Cardinality(K)
      <3>1. Cardinality(K') = Cardinality(K \ {t})
        BY <2>1
      <3> QED  BY <1>3, <3>1
    <2> HIDE DEF K
    <2> QED  BY <1>1, <1>2, <1>7, <2>2 DEF Counts, K
  <1> QED  BY <1>4, <1>5, <1>6, <1>7

LEMMA NotStarted == Frames /\ pc \notin {"start", "started"} => "started" \notin Labels
  BY Shapes DEF Labels, Words, Bottoms, Backs

LEMMA QuietParallel ==
    ASSUME IInv, Parallel, "started" \notin Labels, "started" \notin Labels',
           UNCHANGED <<given, commandState, children, waitingJobs, notParallel>>
    PROVE  Parallel'
  <1>1. Counted' = Counted
    BY DEF Counted, OnChain
  <1>2. Counts'
    BY <1>1, CountStep DEF Parallel
  <1>3. NotParallelAlone' /\ AloneNext'
    BY DEF Parallel, NotParallelAlone, AloneNext, given
  <1> QED  BY <1>2, <1>3 DEF Parallel

LEMMA CountedFacts ==
    ASSUME IInv
    PROVE  /\ OnChain \subseteq Targets /\ Range(children) \subseteq OnChain
           /\ Counted \subseteq Targets /\ ("started" \in Labels => cur \in Targets)
  <1>1. OnChain \subseteq Targets
    <2>1. children \in Seq(Targets) /\ waitingJobs \in Seq(Targets)
      BY DEF IInv, Typed, TypedState
    <2> QED  BY <2>1, RangeOfSeq DEF OnChain
  <1>2. "started" \in Labels => cur \in Targets
    BY DEF IInv, Core, Chains, Handling
  <1> QED  BY <1>1, <1>2 DEF OnChain, Counted

LEMMA StartParallel ==
    ASSUME IInv, Parallel, StartJobCommand
    PROVE  Parallel'
  <1>1. /\ pc = "start" /\ cur \in Targets /\ TypedFiles
        /\ commandState[cur] \in {"not_started", "running"}
        /\ "started" \in Labels \/ cur \in Range(children)
    <2>1. pc = "start"
      BY StartSummary
    <2> QED  BY <2>1, StartFacts DEF IInv, Typed, Labels
  <1>2. UNCHANGED given /\ UNCHANGED <<alone, children, waitingJobs, cur>>
    BY StartSummary DEF given, chains, locals
  <1>3. "started" \in Labels' <=> "started" \in Labels
    <2>1. CASE UNCHANGED control
      BY <2>1 DEF control, Labels
    <2>2. CASE Return
      <3>1. Labels' = Range(stack)
        BY <1>1, <2>2, ReturnFrames DEF IInv, Core
      <3> QED  BY <1>1, <3>1 DEF Labels
    <2> QED  BY <2>1, <2>2, StartSummary
  <1>4. cur \in Counted
    BY <1>1 DEF Counted, OnChain
  <1>5. Counted' = IF commandState'[cur] = "finished" THEN Counted \ {cur} ELSE Counted
    <2>1. \A t \in Targets : t # cur => commandState'[t] = commandState[t]
      BY StartSummary
    <2>2. /\ OnChain' = OnChain
          /\ (OnChain \cup (IF "started" \in Labels THEN {cur} ELSE {})) \subseteq Targets
      BY <1>1, <1>2, CountedFacts DEF OnChain
    <2>3. (OnChain \cup (IF "started" \in Labels THEN {cur} ELSE {}))'
             = OnChain \cup (IF "started" \in Labels THEN {cur} ELSE {})
      BY <1>2, <1>3, <2>2
    <2> QED  BY <1>4, <2>1, <2>2, <2>3 DEF Counted
  <1>6. \/ Counted' = Counted /\ notParallel' = notParallel
        \/ cur \in Counted /\ Counted' = Counted \ {cur} /\ notParallel' = notParallel - One(cur \in alone)
        \/ (Question \/ ForkFails) /\ Counted' = Counted \ {cur} /\ notParallel' = notParallel
    <2>1. NextCommand => \/ ~LastCommand /\ notParallel' = notParallel
                         \/ LastCommand /\ notParallel' = notParallel - One(cur \in alone)
      <3>1. line[cur] \in Nat /\ Len(recipe[cur]) \in Nat /\ line[cur] <= Len(recipe[cur])
        <4>1. recipe[cur] # <<>> /\ Recipes
          BY <1>1, StartFacts DEF IInv, Core
        <4>2. line[cur] \in 1 .. Len(recipe[cur]) /\ Len(recipe[cur]) \in Nat
          <5>1. line[cur] \in 1 .. Len(recipe[cur])
            BY <1>1, <4>1, LineFacts
          <5>2. Len(recipe[cur]) \in 0 .. MaxLines /\ MaxLines \in Nat
            BY <1>1, Given
          <5> QED  BY <5>1, <5>2
        <4> QED  BY <4>2
      <3> QED  BY <3>1 DEF NextCommand, LastCommand
    <2>2. CASE StartEmpty
      <3>1. NextCommand /\ commandState'[cur] = IF LastCommand THEN "finished" ELSE commandState[cur]
        BY <1>1, <2>2 DEF StartEmpty, TypedFiles
      <3> QED  BY <1>1, <1>4, <1>5, <2>1, <3>1
    <2>3. CASE StartBuiltinOk
      <3>1. NextCommand /\ commandState'[cur] = IF LastCommand THEN "finished" ELSE "running"
        BY <1>1, <2>3 DEF StartBuiltinOk, TypedFiles
      <3> QED  BY <1>1, <1>4, <1>5, <2>1, <3>1
    <2>4. CASE StartQuestion \/ StartForkFails
      <3>1. /\ commandState'[cur] = "finished" /\ (Question \/ ForkFails)
            /\ notParallel' = notParallel - One(cur \in alone /\ commandState[cur] = "running")
        BY <1>1, <2>4 DEF StartQuestion, StartForkFails, NoticeFinished, TypedFiles
      <3>2. CASE commandState[cur] = "running"
        BY <1>4, <1>5, <3>1, <3>2 DEF One
      <3>3. CASE commandState[cur] # "running"
        <4>1. notParallel \in Int
          BY DEF IInv, Typed, TypedState
        <4> QED  BY <1>5, <3>1, <3>3, <4>1 DEF One
      <3> QED  BY <3>2, <3>3
    <2>5. CASE StartProcess \/ StartBuiltinFails
      <3>1. commandState'[cur] = "running" /\ notParallel' = notParallel
        BY <1>1, <2>5 DEF StartProcess, StartBuiltinFails, TypedFiles
      <3> QED  BY <1>5, <3>1
    <2> QED  BY <2>2, <2>3, <2>4, <2>5 DEF StartJobCommand
  <1>7. Counts'
    BY <1>2, <1>6, CountStep DEF Parallel
  <1>8. NotParallelAlone' /\ AloneNext'
    BY <1>2, <1>3 DEF Parallel, NotParallelAlone, AloneNext
  <1> QED  BY <1>7, <1>8 DEF Parallel

LEMMA FinishParallel ==
    ASSUME IInv, Parallel, NEW c \in Range(children), NEW s, NEW f, FinishChild(c, s, f),
           pc \in {"reap", "reap_started"}
    PROVE  Parallel'
  <1>1. /\ c \in Targets /\ c \notin Range(waitingJobs) /\ Range(children') = Range(children) \ {c}
        /\ children' \in Seq(Targets) /\ Len(children') = Len(children) - 1
    BY FinishedChild DEF IInv, Core, Typed
  <1>2. UNCHANGED given /\ UNCHANGED <<alone, waitingJobs, cur>>
    BY DEF FinishChild, given
  <1>3. /\ commandState' = [commandState EXCEPT ![c] = "finished"]
        /\ notParallel' = notParallel - One(c \in alone /\ commandState[c] = "running")
    BY DEF FinishChild, NoticeFinished
  <1>4. "started" \notin Labels /\ "started" \notin Labels'
    <2>1. Frames
      BY DEF IInv, Core
    <2>2. "started" \notin Labels
      BY <2>1, NotStarted
    <2>3. pc' \in {"die", "reap"} /\ (stack' = stack \/ stack' = <<>>)
      BY DEF FinishChild
    <2>4. Range(<<>>) = {}
      BY DEF Range
    <2> QED  BY <2>2, <2>3, <2>4 DEF Labels
  <1>5. Counted' = Counted \ {c}
    <2>1. OnChain \subseteq Targets /\ TypedFiles
      BY CountedFacts DEF IInv, Typed
    <2>2. OnChain' = OnChain \ {c}
      BY <1>1, <1>2 DEF OnChain
    <2>3. \A t \in Targets : t # c => commandState'[t] = commandState[t]
      BY <1>3, <2>1 DEF TypedFiles
    <2> QED  BY <1>4, <2>1, <2>2, <2>3 DEF Counted
  <1>6. \/ Counted' = Counted /\ notParallel' = notParallel
        \/ c \in Counted /\ Counted' = Counted \ {c} /\ notParallel' = notParallel - One(c \in alone)
    <2>1. CASE commandState[c] = "running"
      <3>1. c \in Counted
        BY <2>1 DEF Counted, OnChain
      <3> QED  BY <1>3, <1>5, <2>1, <3>1 DEF One
    <2>2. CASE commandState[c] # "running"
      <3>1. commandState[c] = "finished" /\ notParallel \in Int
        BY <2>2 DEF IInv, Core, States, Typed, TypedState
      <3>2. c \notin Counted
        BY <3>1 DEF Counted
      <3> QED  BY <1>3, <1>5, <2>2, <3>1, <3>2 DEF One
    <2> QED  BY <2>1, <2>2
  <1>7. Counts'
    BY <1>2, <1>6, CountStep DEF Parallel
  <1>8. NotParallelAlone'
    <2> SUFFICES ASSUME NEW t \in alone, t \in Range(children')
                 PROVE  FALSE
      BY <1>2 DEF NotParallelAlone
    <2>1. children = <<t>> /\ t # c
      BY <1>1 DEF Parallel, NotParallelAlone
    <2>2. Range(children) = {t}
      BY <2>1 DEF Range
    <2> QED  BY <1>1, <2>1, <2>2
  <1> QED  BY <1>4, <1>7, <1>8 DEF Parallel, AloneNext

LEMMA HandleExitParallel ==
    ASSUME IInv, Parallel, pc = "reap", NEW c \in Range(children), NEW e, HandleExit(c, e)
    PROVE  Parallel'
  <1>1. CASE \E s, f : FinishChild(c, s, f)
    BY <1>1, FinishParallel
  <1>2. CASE /\ Call("start", "reap_started")
             /\ UNCHANGED <<given, files, pid, hasStatus, chains, tokens, notParallel,
                            new, block, dying, status>>
    <2>1. Frames /\ "reap_started" \in Words
      BY DEF IInv, Core, Words
    <2>2. Labels' = {"start", "reap_started"} \cup Range(stack)
      BY <1>2, <2>1, CallFrames
    <2>3. "started" \notin Labels /\ Range(stack) \subseteq Labels
      BY <2>1, NotStarted DEF Labels
    <2> QED  BY <1>2, <2>2, <2>3, QuietParallel DEF files, chains
  <1> QED  BY <1>1, <1>2 DEF HandleExit

LEMMA ReapParallel ==
    ASSUME IInv, Parallel, ReapChildren
    PROVE  Parallel'
  <1>1. TypedState /\ Frames /\ States
    BY DEF IInv, Core, Typed
  <1>2. CASE ReapCompleted
    <2>1. ChildOf(pid[CompletedChild]) \in Range(children)
      BY <1>1, <1>2, CompletedFacts, ChildOfFacts DEF ReapCompleted
    <2> QED  BY <1>2, <2>1, HandleExitParallel DEF ReapCompleted, Reaping
  <1>3. ASSUME NEW p \in Procs, ReapProcess(p) PROVE Parallel'
    <2>1. ChildOf(p) \in Range(children)
      BY <1>1, <1>3, ChildOfFacts DEF ReapProcess
    <2> QED  BY <1>3, <2>1, HandleExitParallel DEF ReapProcess, Reaping
  <1>4. CASE ReapStarted /\ commandState[cur] # "running"
    <2>1. pc = "reap_started" /\ FinishChild(cur, updateStatus[cur], 0)
      BY <1>4 DEF ReapStarted
    <2>2. cur \in Range(children)
      BY <1>1, <2>1 DEF States, Restarting, Labels
    <2> QED  BY <2>1, <2>2, FinishParallel
  <1>5. CASE ReapStarted /\ commandState[cur] = "running"
    <2>1. /\ pc = "reap_started" /\ pc' = "reap" /\ stack' = stack
          /\ UNCHANGED <<given, commandState, children, waitingJobs, notParallel>>
      BY <1>5 DEF ReapStarted, Goto, FinishChild, NoticeFinished, files, chains
    <2>2. "started" \notin Labels
      BY <1>1, <2>1, NotStarted
    <2>3. "started" \notin Labels'
      BY <2>1, <2>2 DEF Labels
    <2> QED  BY <2>1, <2>2, <2>3, QuietParallel
  <1>6. CASE ReapReturns \/ ReapNothing
    <2>1. /\ pc = "reap" /\ Return
          /\ UNCHANGED <<given, commandState, children, waitingJobs, notParallel>>
      BY <1>6 DEF ReapReturns, ReapNothing, Reaping, files, chains
    <2>2. Labels' = Range(stack) /\ "started" \notin Labels
      BY <1>1, <2>1, ReturnFrames, NotStarted
    <2> QED  BY <2>1, <2>2, QuietParallel DEF Labels
  <1>7. ASSUME NEW p \in Procs, ReapUnknown(p) PROVE Parallel'
    <2>1. /\ pc = "reap" /\ UNCHANGED control
          /\ UNCHANGED <<given, commandState, children, waitingJobs, notParallel>>
      BY <1>7 DEF ReapUnknown, Reaping, files, chains
    <2>2. "started" \notin Labels /\ Labels' = Labels
      BY <1>1, <2>1, NotStarted DEF control, Labels
    <2> QED  BY <2>1, <2>2, QuietParallel
  <1> QED  BY <1>2, <1>3, <1>4, <1>5, <1>6, <1>7 DEF ReapChildren

LEMMA QueueJobParallel ==
    ASSUME IInv, Parallel, QueueJob
    PROVE  Parallel'
  <1>1. /\ pc = "start_waiting_job" /\ Frames /\ TypedFiles /\ TypedState /\ Chains
        /\ UNCHANGED given /\ UNCHANGED <<alone, children>>
    BY DEF QueueJob, IInv, Core, Typed, given
  <1>2. Handling /\ "started" \notin Labels /\ "started" \notin Labels'
    BY <1>1, QueueFrames, NotStarted DEF Handling, Labels, Backs
  <1>3. cur \in Targets \ OnChain
    BY <1>1, <1>2 DEF Chains
  <1>4. OnChain' = OnChain \cup {cur}
    <2>1. Range(waitingJobs') = Range(waitingJobs) \cup {cur}
      <3>1. /\ Range(Append(waitingJobs, cur)) = Range(waitingJobs) \cup {cur}
            /\ Range(<<cur>> \o waitingJobs) = {cur} \cup Range(waitingJobs)
        BY <1>1, <1>3, AppendElements, PushElements DEF TypedState
      <3> QED  BY <3>1 DEF QueueJob
    <2> QED  BY <1>1, <2>1 DEF OnChain
  <1>5. cur \notin Counted /\ Counted' = Counted \cup {cur}
    <2>1. commandState' = [commandState EXCEPT ![cur] = "running"]
      BY DEF QueueJob
    <2>2. /\ \A t \in Targets : t # cur => commandState'[t] = commandState[t]
          /\ commandState'[cur] = "running"
      BY <1>1, <1>3, <2>1 DEF TypedFiles
    <2> QED  BY <1>2, <1>3, <1>4, <2>2, CountedFacts DEF Counted
  <1>6. Counts'
    <2>1. notParallel' = notParallel + One(cur \in alone)
      BY DEF QueueJob, NowNotParallel
    <2> QED  BY <1>1, <1>5, <2>1, CountStep DEF Parallel
  <1> QED  BY <1>1, <1>2, <1>6 DEF Parallel, NotParallelAlone, AloneNext

LEMMA StartNowParallel ==
    ASSUME IInv, Parallel, StartNow
    PROVE  Parallel'
  <1>1. /\ pc = "start_waiting_job" /\ Frames /\ TypedFiles /\ TypedState /\ Chains /\ States
        /\ UNCHANGED given /\ UNCHANGED <<alone, commandState, children, waitingJobs, cur>>
    BY DEF StartNow, IInv, Core, Typed, given, files, chains, locals
  <1>2. Handling /\ "started" \notin Labels /\ "started" \in Labels'
    <2>1. "started" \in Words /\ Call("start", "started")
      BY DEF Words, StartNow
    <2>2. "started" \in Labels'
      BY <1>1, <2>1, CallFrames
    <2> QED  BY <1>1, <2>2, NotStarted DEF Handling, Labels
  <1>3. cur \in Targets \ OnChain /\ commandState[cur] # "finished"
    BY <1>1, <1>2 DEF Chains, States
  <1>4. cur \notin Counted /\ Counted' = Counted \cup {cur}
    BY <1>1, <1>2, <1>3 DEF Counted, OnChain
  <1>5. Counts'
    <2>1. notParallel' = notParallel + One(cur \in alone)
      BY DEF StartNow, NowNotParallel
    <2> QED  BY <1>1, <1>4, <2>1, CountStep DEF Parallel
  <1>6. AloneNext'
    <2>1. CASE jobSlotsUsed = 0
      <3>1. children = <<>>
        BY <1>1, <2>1, EmptySeq DEF TypedState, Chains
      <3> QED  BY <1>1, <3>1 DEF AloneNext
    <2>2. CASE NowNotParallel <= 0 /\ alone # {}
      <3> DEFINE K == alone \cap Counted
      <3>1. IsFiniteSet(K) /\ Cardinality(K) \in Nat
        BY <1>1, Given, FS_Subset, FS_CardinalityType DEF TypedFiles
      <3>2. notParallel >= Cardinality(K) /\ notParallel \in Int
        BY <1>1, <2>2 DEF Parallel, Counts, TypedState
      <3>3. One(cur \in alone) \in 0 .. 1 /\ notParallel + One(cur \in alone) <= 0
        BY <2>2 DEF One, NowNotParallel
      <3>4. Cardinality(K) = 0 /\ One(cur \in alone) = 0
        <4> HIDE DEF K
        <4> QED  BY <3>1, <3>2, <3>3
      <3>5. K = {} /\ cur \notin alone
        BY <3>1, <3>4, FS_EmptySet DEF One
      <3>6. Range(children) \subseteq Counted
        <4>1. ~Restarting
          BY <1>1, Shapes DEF Restarting, Labels, Backs
        <4> QED  BY <1>1, <4>1 DEF States, Counted, OnChain
      <3> QED  BY <1>1, <3>5, <3>6 DEF AloneNext
    <2> QED  BY <1>1, <2>1, <2>2 DEF StartNow, AloneNext
  <1> QED  BY <1>1, <1>5, <1>6 DEF Parallel, NotParallelAlone

LEMMA StartedParallel ==
    ASSUME IInv, Parallel, Started
    PROVE  Parallel'
  <1>1. /\ pc = "started" /\ Return /\ Frames /\ TypedFiles /\ TypedState /\ Chains
        /\ UNCHANGED given
        /\ UNCHANGED <<alone, commandState, waitingJobs, notParallel, cur>>
    BY DEF Started, IInv, Core, Typed, given, files, locals
  <1>2. "started" \in Labels /\ "started" \notin Labels'
    <2>1. Labels' = Range(stack)
      BY <1>1, ReturnFrames
    <2>2. "started" \notin Range(stack)
      BY <1>1, Shapes DEF Backs
    <2> QED  BY <1>1, <2>1, <2>2 DEF Labels
  <1>3. cur \in Targets \ OnChain
    BY <1>1, <1>2 DEF Chains, Handling
  <1>4. CASE commandState[cur] = "running"
    <2>1. children' = <<cur>> \o children
      BY <1>4 DEF Started
    <2>2. Range(children') = {cur} \cup Range(children)
      BY <1>1, <1>3, <2>1, PushElements DEF TypedState
    <2>3. Counted' = Counted
      BY <1>1, <1>2, <2>2 DEF Counted, OnChain
    <2>4. Counts'
      BY <1>1, <2>3, CountStep DEF Parallel
    <2>5. NotParallelAlone'
      <3> SUFFICES ASSUME NEW t \in alone, t \in Range(children') PROVE children' = <<t>>
        BY <1>1 DEF NotParallelAlone
      <3>1. children = <<>> /\ t = cur
        <4>1. Range(<<>>) = {}
          BY DEF Range
        <4> QED  BY <1>2, <2>2, <4>1 DEF Parallel, AloneNext
      <3>2. <<cur>> \o <<>> = <<cur>>
        BY <1>3, ConcatEmptySeq
      <3> QED  BY <2>1, <3>1, <3>2
    <2> QED  BY <1>2, <2>4, <2>5 DEF Parallel, AloneNext
  <1>5. CASE commandState[cur] # "running"
    <2>1. commandState[cur] = "finished" /\ children' = children
      BY <1>5 DEF Started
    <2>2. Counted' = Counted
      BY <1>1, <1>2, <2>1 DEF Counted, OnChain
    <2>3. Counts'
      BY <1>1, <2>2, CountStep DEF Parallel
    <2> QED  BY <1>1, <1>2, <2>1, <2>3 DEF Parallel, NotParallelAlone, AloneNext
  <1> QED  BY <1>4, <1>5

LEMMA TakeWaitingParallel ==
    ASSUME IInv, Parallel, TakeWaiting
    PROVE  Parallel'
  <1> DEFINE t == Head(waitingJobs)
  <1>1. /\ pc = "take_waiting" /\ Frames /\ TypedFiles /\ TypedState /\ Chains /\ States /\ Seen
        /\ waitingJobs' = Tail(waitingJobs)
        /\ notParallel' = notParallel - One(t \in alone)
        /\ Call("start_waiting_job", "start_waiting_jobs")
        /\ UNCHANGED given /\ UNCHANGED <<alone, commandState, children>>
    BY DEF TakeWaiting, IInv, Core, Typed, given, files
  <1>2. "started" \notin Labels /\ "started" \notin Labels'
    <2>1. "start_waiting_jobs" \in Words
      BY DEF Words
    <2>2. Labels' = {"start_waiting_job", "start_waiting_jobs"} \cup Range(stack)
      BY <1>1, <2>1, CallFrames
    <2>3. "started" \notin Labels /\ Range(stack) \subseteq Labels
      BY <1>1, NotStarted DEF Labels
    <2> QED  BY <2>2, <2>3
  <1>3. /\ Range(waitingJobs) = Range(waitingJobs') \cup {t} /\ t \notin Range(waitingJobs')
        /\ t \notin Range(children)
    <2>1. waitingJobs \in Seq(Targets) /\ waitingJobs # <<>> /\ IsInjective(waitingJobs)
      BY <1>1 DEF TypedState, Chains, Seen, Labels
    <2>2. Range(waitingJobs) = Range(waitingJobs') \cup {t} /\ t \notin Range(waitingJobs')
      BY <1>1, <2>1, TailElements
    <2> QED  BY <1>1, <2>2 DEF Chains
  <1> HIDE DEF t
  <1>4. t \in Counted /\ Counted' = Counted \ {t}
    <2>1. commandState[t] = "running"
      BY <1>1, <1>3 DEF States
    <2> QED  BY <1>1, <1>2, <1>3, <2>1 DEF Counted, OnChain
  <1>5. Counts'
    BY <1>1, <1>4, CountStep DEF Parallel
  <1> QED  BY <1>1, <1>2, <1>5 DEF Parallel, NotParallelAlone, AloneNext

(* The other steps of kmk: neither a job nor the count changes hands.      *)
LEMMA OtherStepsParallel ==
    ASSUME IInv, IInv', Parallel,
           \/ StartWaitingJobs \/ NewJobSteps \/ \E t \in Targets : NewJob(t)
           \/ NextRound \/ ReapRound \/ LastRound \/ DieReaps \/ CleanJobserver
    PROVE  Parallel'
  <1>1. Frames /\ Frames'
    BY DEF IInv, Core
  <1>2. /\ UNCHANGED <<given, commandState, children, waitingJobs, notParallel>>
        /\ pc \in Flat \cup {"start_waiting_jobs"}
    BY DEF StartWaitingJobs, NewJobSteps, ReapBefore, WaitSlot, StartWaiting, FreeToken, Acquire,
           StartNewJob, Linear, NewJob, NextRound, ReapRound, LastRound, DieReaps, CleanJobserver,
           Flat, files, chains
  <1>3. pc' \notin {"start", "started"}
    <2>1. CASE StartWaitingJobs
      <3>1. pc = "start_waiting_jobs" /\ (Return \/ pc' = "reap")
        BY <2>1 DEF StartWaitingJobs, ReapThen, Call
      <3> QED  BY <1>1, <3>1, ReturnFrames DEF Backs
    <2>2. CASE ~StartWaitingJobs
      BY <2>2 DEF NewJobSteps, ReapBefore, WaitSlot, StartWaiting, FreeToken, Acquire,
           StartNewJob, Linear, NewJob, NextRound, ReapRound, LastRound, DieReaps, CleanJobserver,
           ReapThen, Call, Goto
    <2> QED  BY <2>1, <2>2
  <1>4. "started" \notin Labels
    BY <1>1, <1>2, NotStarted DEF Flat
  <1>5. "started" \notin Labels'
    <2>1. (Frames /\ pc \notin {"start", "started"} => "started" \notin Labels)'
      BY NotStarted, PTL
    <2> QED  BY <1>1, <1>3, <2>1
  <1> QED  BY <1>2, <1>4, <1>5, QuietParallel

LEMMA OutsideParallel ==
    ASSUME IInv, Parallel,
           \/ OtherTakes \/ OtherGives \/ \E p \in Procs : ProcessExits(p)
           \/ UNCHANGED vars
    PROVE  Parallel'
  <1>1. /\ UNCHANGED <<alone, commandState, children, waitingJobs, notParallel, control, cur>>
        /\ UNCHANGED given
    BY DEF OtherTakes, OtherGives, ProcessExits, vars, given, files, chains, locals
  <1>2. Labels' = Labels
    BY <1>1 DEF control, Labels
  <1>3. Counted' = Counted
    BY <1>1, <1>2 DEF Counted, OnChain
  <1>4. Counts'
    BY <1>1, <1>3, CountStep DEF Parallel
  <1> QED  BY <1>1, <1>2, <1>4 DEF Parallel, NotParallelAlone, AloneNext

LEMMA ParallelInvariance == Spec => [](IInv /\ Parallel)
  <1>1. ASSUME Init PROVE Parallel
    <2>1. Range(<<>>) = {} /\ "started" \notin Labels
      BY <1>1 DEF Init, Range, Labels
    <2>2. Counted = {} /\ Range(children) = {}
      BY <1>1, <2>1 DEF Init, Counted, OnChain
    <2>3. Cardinality(alone \cap Counted) = 0
      BY <2>2, FS_EmptySet
    <2> QED  BY <1>1, <2>1, <2>2, <2>3 DEF Init, Parallel, Counts, NotParallelAlone, AloneNext
  <1>2. ASSUME IInv, Parallel, [Next]_vars PROVE Parallel'
    BY <1>2, StepInv, StartParallel, ReapParallel, QueueJobParallel, StartNowParallel, StartedParallel,
       TakeWaitingParallel, OtherStepsParallel, OutsideParallel DEF Next, Kmk, WaitingJobs
  <1> QED  BY <1>1, <1>2, Invariance, PTL DEF Spec

(* A job of a not-parallel file is alone on the chain of running children. *)
THEOREM AloneRuns == Spec => []NotParallelAlone
  BY ParallelInvariance, PTL DEF Parallel

(* Between jobs not_parallel is the number of not-parallel files that run  *)
(* or wait, unless -q or a failed fork() left one counted.                 *)
THEOREM ParallelCounted == Spec => []NotParallelCounts
  <1>1. ASSUME IInv, Parallel PROVE NotParallelCounts
    <2> SUFFICES ASSUME notParallel >= 0, pc \in {"chain", "acquire", "die"}, ~Question, ~ForkFails
                 PROVE  notParallel = Cardinality(alone \cap OnChain)
      BY DEF NotParallelCounts, OnChain
    <2>1. Frames /\ States /\ TypedState
      BY <1>1 DEF IInv, Core, Typed
    <2>2. ~Restarting /\ "started" \notin Labels
      BY <2>1, Shapes DEF Flat, Restarting, Labels
    <2>3. Counted = OnChain
      BY <2>1, <2>2 DEF Counted, OnChain, States
    <2>4. CASE alone = {}
      <3>1. notParallel = 0
        BY <1>1, <2>4 DEF Parallel, Counts
      <3>2. alone \cap OnChain = {}
        BY <2>4
      <3> QED  BY <3>1, <3>2, FS_EmptySet
    <2>5. CASE alone # {}
      BY <1>1, <2>3, <2>5 DEF Parallel, Counts
    <2> QED  BY <2>4, <2>5
  <1> QED  BY <1>1, ParallelInvariance, PTL

-----------------------------------------------------------------------------
(* The exit status of a command.  has_status is never cleared, so a builtin*)
(* whose failure is ignored spoils the lines after it; the theorems below  *)
(* are about makefiles in which such a builtin is the last line.           *)

IgnoredLast(m) ==
    \A t \in Targets : \A i \in DOMAIN m[t] :
        m[t][i].cmd = "builtin" /\ m[t][i].noerror => i = Len(m[t])

IgnoredBuiltinsLast == \A i \in Invocations : \A m \in i.makefiles : IgnoredLast(m)

(* The jobs whose current line has been started.                           *)
Launched == {t \in Range(children) : commandState[t] = "running" /\ ~(pc = "start" /\ t = cur)}
              \cup (IF pc = "started" /\ commandState[cur] = "running" THEN {cur} ELSE {})

Done(t, i) == recipe[t][i].cmd # "empty" => \/ exit[<<t, i>>] = "ok"
                                            \/ recipe[t][i].noerror /\ exit[<<t, i>>] \in Results

(* The child of a job has the pid of the line's process and waits for it,  *)
(* or the failure of the line's builtin.                                   *)
OwnPid(t) ==
    \/ pid[t] = <<t, line[t]>> /\ ~hasStatus[t] /\ exit[<<t, line[t]>>] \in {"running"} \cup Results
    \/ /\ pid[t] = FakePid /\ hasStatus[t]
       /\ exit[<<t, line[t]>>] = "fail" /\ Line(t).cmd = "builtin"

Statuses ==
    /\ \A t \in Launched : OwnPid(t)
    /\ \A t \in Targets : commandState[t] # "finished" /\ t \notin Launched => ~hasStatus[t]
    /\ \A t \in Targets, i \in 1 .. MaxLines :
         exit[<<t, i>>] = "running" => t \in Launched /\ i = line[t] /\ ~hasStatus[t]
    /\ \A t \in Targets, i \in 1 .. MaxLines : i < line[t] /\ i \in DOMAIN recipe[t] => Done(t, i)
    /\ \A t \in Targets : commandState[t] = "finished" /\ updateStatus[t] = "success" =>
         \A i \in DOMAIN recipe[t] : Done(t, i)

LEMMA LaunchedFacts ==
    ASSUME IInv
    PROVE  /\ Launched \subseteq Targets /\ Range(children) \subseteq Targets
           /\ \A t \in Launched : commandState[t] = "running"
           /\ TypedFiles /\ TypedState /\ Frames /\ Recipes /\ Chains /\ States
  <1>1. TypedFiles /\ TypedState /\ Frames /\ Recipes /\ Chains /\ States
    BY DEF IInv, Typed, Core
  <1>2. pc = "started" => cur \in Targets
    BY <1>1 DEF Chains, Handling, Labels
  <1> QED  BY <1>1, <1>2, CountedFacts DEF Launched

(* No line is started, ends, or is gone on from.                           *)
LEMMA QuietStatuses ==
    ASSUME Statuses, UNCHANGED <<recipe, updateStatus, line, pid, hasStatus, exit>>,
           Launched' = Launched,
           \A t \in Targets : commandState'[t] = "finished" <=> commandState[t] = "finished"
    PROVE  Statuses'
  <1>1. \A t : (OwnPid(t)' <=> OwnPid(t)) /\ \A i : (Done(t, i)' <=> Done(t, i))
    BY DEF OwnPid, Done, Line
  <1> QED  BY <1>1 DEF Statuses

(* What becomes of the job of c; the other jobs stay as they are.          *)
LEMMA OneStatus ==
    ASSUME IInv, Statuses, UNCHANGED recipe, NEW c \in Targets, recipe[c] # <<>>,
           NEW l, l = line[c],
           \A t \in Targets : t # c => /\ line'[t] = line[t] /\ pid'[t] = pid[t]
                                       /\ hasStatus'[t] = hasStatus[t]
                                       /\ commandState'[t] = commandState[t]
                                       /\ updateStatus'[t] = updateStatus[t],
           \A p \in Procs : p # <<c, l>> => exit'[p] = exit[p],
           Launched' \cup {c} = Launched \cup {c}, Launched' \subseteq Targets,
           c \in Launched' => OwnPid(c)',
           c \notin Launched' /\ commandState'[c] # "finished" => ~hasStatus'[c],
           exit'[<<c, l>>] = "running" => c \in Launched' /\ line'[c] = line[c] /\ ~hasStatus'[c],
           line'[c] = line[c] \/ (line'[c] = line[c] + 1 /\ Done(c, l)'),
           commandState'[c] = "finished" /\ updateStatus'[c] = "success" =>
               \/ /\ commandState[c] = "finished" /\ updateStatus[c] = "success"
                  /\ exit'[<<c, l>>] = exit[<<c, l>>]
               \/ Done(c, l)' /\ line[c] = Len(recipe[c])
    PROVE  Statuses'
  <1>1. /\ TypedFiles /\ line[c] \in 1 .. Len(recipe[c]) /\ Len(recipe[c]) \in 0 .. MaxLines
        /\ DOMAIN recipe[c] = 1 .. Len(recipe[c]) /\ MaxLines \in Nat
    BY LaunchedFacts, LineFacts, Given
  <1>2. \A t \in Targets : DOMAIN recipe[t] \subseteq 1 .. MaxLines
    BY <1>1, Given
  <1>3. ASSUME NEW t \in Targets, NEW i \in 1 .. MaxLines, t # c \/ i # line[c]
        PROVE  exit'[<<t, i>>] = exit[<<t, i>>] /\ (Done(t, i)' <=> Done(t, i))
    <2>1. <<t, i>> \in Procs /\ <<t, i>> # <<c, line[c]>>
      BY <1>3 DEF Procs
    <2>2. exit'[<<t, i>>] = exit[<<t, i>>]
      BY <2>1
    <2> QED  BY <2>2 DEF Done
  <1>4. ASSUME NEW t \in Launched' PROVE OwnPid(t)'
    <2>1. CASE t # c
      <3>1. t \in Launched /\ t \in Targets /\ recipe[t] # <<>>
        <4>1. t \in Launched /\ t \in Targets
          BY <2>1
        <4> QED  BY <4>1, LaunchedFacts DEF Recipes
      <3>2. line[t] \in 1 .. MaxLines
        <4>1. line[t] \in 1 .. Len(recipe[t]) /\ Len(recipe[t]) \in 0 .. MaxLines
          BY <1>1, <3>1, LaunchedFacts, LineFacts
        <4> QED  BY <1>1, <4>1
      <3>3. exit'[<<t, line[t]>>] = exit[<<t, line[t]>>]
        BY <1>3, <2>1, <3>1, <3>2
      <3>4. OwnPid(t)
        BY <3>1 DEF Statuses
      <3> QED  BY <2>1, <3>1, <3>3, <3>4 DEF OwnPid, Line
    <2> QED  BY <2>1
  <1>5. ASSUME NEW t \in Targets, commandState'[t] # "finished", t \notin Launched'
        PROVE  ~hasStatus'[t]
    <2>1. CASE t # c
      BY <1>5, <2>1 DEF Statuses
    <2> QED  BY <1>5, <2>1
  <1>6. ASSUME NEW t \in Targets, NEW i \in 1 .. MaxLines, exit'[<<t, i>>] = "running"
        PROVE  t \in Launched' /\ i = line'[t] /\ ~hasStatus'[t]
    <2>1. CASE t = c /\ i = line[c]
      BY <1>6, <2>1
    <2>2. CASE t # c \/ i # line[c]
      <3>1. exit[<<t, i>>] = "running"
        BY <1>3, <1>6, <2>2
      <3>2. t \in Launched /\ i = line[t] /\ ~hasStatus[t]
        BY <3>1 DEF Statuses
      <3> QED  BY <2>2, <3>2
    <2> QED  BY <2>1, <2>2
  <1>7. ASSUME NEW t \in Targets, NEW i \in 1 .. MaxLines, i < line'[t], i \in DOMAIN recipe[t]
        PROVE  Done(t, i)'
    <2>1. CASE t = c /\ i = line[c]
      BY <1>1, <1>7, <2>1
    <2>2. CASE t # c \/ i # line[c]
      <3>1. i < line[t]
        BY <1>1, <1>7, <2>2
      <3> QED  BY <1>3, <1>7, <2>2, <3>1 DEF Statuses
    <2> QED  BY <2>1, <2>2
  <1>8. ASSUME NEW t \in Targets, commandState'[t] = "finished", updateStatus'[t] = "success",
               NEW i \in DOMAIN recipe[t]
        PROVE  Done(t, i)'
    <2>1. i \in 1 .. MaxLines
      BY <1>2
    <2>2. CASE t # c
      BY <1>3, <1>8, <2>1, <2>2 DEF Statuses
    <2>3. CASE t = c /\ Done(c, l)' /\ line[c] = Len(recipe[c])
      <3>1. CASE i = line[c]
        BY <2>3, <3>1
      <3>2. CASE i # line[c]
        <4>1. i < line[c]
          BY <1>1, <2>3, <3>2
        <4>2. Done(t, i)
          BY <2>1, <2>3, <4>1 DEF Statuses
        <4> QED  BY <1>3, <2>1, <3>2, <4>2
      <3> QED  BY <3>1, <3>2
    <2>4. CASE /\ t = c /\ commandState[c] = "finished" /\ updateStatus[c] = "success"
               /\ exit'[<<c, line[c]>>] = exit[<<c, line[c]>>]
      <3>1. exit'[<<t, i>>] = exit[<<t, i>>]
        BY <1>3, <2>1, <2>4
      <3>2. Done(t, i)
        BY <2>4 DEF Statuses
      <3> QED  BY <3>1, <3>2 DEF Done
    <2> QED  BY <1>8, <2>2, <2>3, <2>4
  <1>9. DOMAIN recipe' = DOMAIN recipe
    OBVIOUS
  <1> QED  BY <1>4, <1>5, <1>6, <1>7, <1>8 DEF Statuses

LEMMA StartStatuses ==
    ASSUME IInv, Statuses, StartJobCommand
    PROVE  Statuses'
  <1>1. /\ pc = "start" /\ cur \in Targets /\ recipe[cur] # <<>>
        /\ commandState[cur] \in {"not_started", "running"}
        /\ \/ Handling /\ ~Restarting /\ cur \notin OnChain
           \/ Restarting /\ ~Handling /\ cur \in Range(children)
    <2>1. pc = "start"
      BY StartSummary
    <2> QED  BY <2>1, StartFacts
  <1>2. TypedFiles /\ TypedState /\ Frames /\ Range(children) \subseteq Targets
    BY LaunchedFacts
  <1>3. /\ UNCHANGED <<recipe, children, cur>>
        /\ \A t \in Targets : t # cur => commandState'[t] = commandState[t] /\ line'[t] = line[t]
    BY StartSummary DEF given, chains, locals
  <1>4. PICK l : l = line[cur]
    OBVIOUS
  <1>5. /\ l \in 1 .. Len(recipe[cur]) /\ l \in 1 .. MaxLines /\ <<cur, l>> \in Procs
        /\ Line(cur) = recipe[cur][l]
    <2>1. line[cur] \in 1 .. Len(recipe[cur]) /\ <<cur, line[cur]>> \in Procs
      BY <1>1, <1>2, LaunchedFacts, LineFacts
    <2> QED  BY <1>4, <2>1 DEF Procs, Line
  <1>6. cur \notin Launched /\ ~hasStatus[cur] /\ exit[<<cur, l>>] # "running"
    <2>1. cur \notin Launched
      BY <1>1 DEF Launched
    <2> QED  BY <1>1, <1>5, <2>1 DEF Statuses
  <1>7. \A p \in Procs : p # <<cur, l>> => exit'[p] = exit[p]
    BY <1>2, <1>4 DEF StartJobCommand, StartEmpty, StartQuestion, StartProcess, StartForkFails,
              StartBuiltinOk, StartBuiltinFails, system, TypedState
  <1>8. \A t \in Targets : t # cur => /\ pid'[t] = pid[t] /\ hasStatus'[t] = hasStatus[t]
                                      /\ updateStatus'[t] = updateStatus[t]
    <2>1. \A t \in Targets : t # cur => pid'[t] = pid[t] /\ hasStatus'[t] = hasStatus[t]
      BY <1>2 DEF StartJobCommand, StartEmpty, StartQuestion, StartProcess, StartForkFails,
              StartBuiltinOk, StartBuiltinFails, child, TypedFiles
    <2>2. \A t \in Targets : t # cur => updateStatus'[t] = updateStatus[t]
      BY <1>2 DEF StartJobCommand, StartEmpty, StartQuestion, StartProcess, StartForkFails,
              StartBuiltinOk, StartBuiltinFails, NextCommand, NoticeFinished, TypedFiles
    <2> QED  BY <2>1, <2>2
  <1>9. ASSUME UNCHANGED control PROVE Launched' = Launched
    BY <1>1, <1>2, <1>3, <1>9 DEF control, Launched
  <1>10. ASSUME Return
         PROVE  Launched' = Launched \cup (IF commandState'[cur] = "running" THEN {cur} ELSE {})
    <2>1. pc' \in {"started", "reap_started"} /\ pc' \in Labels
      <3>1. Labels' = Range(stack) /\ pc' \in {"started", "reap_started"}
        BY <1>1, <1>2, <1>10, ReturnFrames
      <3> QED  BY <3>1 DEF Labels
    <2>2. CASE Handling /\ ~Restarting /\ cur \notin OnChain
      <3>1. pc' = "started"
        BY <2>1, <2>2 DEF Restarting
      <3> QED  BY <1>1, <1>2, <1>3, <2>2, <3>1 DEF Launched, OnChain
    <2>3. CASE Restarting /\ ~Handling /\ cur \in Range(children)
      <3>1. pc' = "reap_started"
        BY <2>1, <2>3 DEF Handling
      <3> QED  BY <1>1, <1>2, <1>3, <2>3, <3>1 DEF Launched
    <2> QED  BY <1>1, <2>2, <2>3
  <1>11. Launched \subseteq Targets
    BY LaunchedFacts
  <1>12. NextCommand =>
           \/ UNCHANGED control /\ ~LastCommand /\ line'[cur] = line[cur] + 1 /\ UNCHANGED updateStatus
           \/ Return /\ LastCommand /\ UNCHANGED line
    <2>1. line[cur] \in Nat /\ Len(recipe[cur]) \in Nat /\ line[cur] <= Len(recipe[cur])
      <3>1. Len(recipe[cur]) \in 0 .. MaxLines /\ MaxLines \in Nat
        BY <1>1, <1>2, Given
      <3> QED  BY <1>4, <1>5, <3>1
    <2> QED  BY <1>1, <1>2, <2>1 DEF NextCommand, LastCommand, TypedFiles
  <1>13. CASE StartEmpty
    <2>1. /\ NextCommand /\ Line(cur).cmd = "empty" /\ UNCHANGED <<pid, hasStatus, exit>>
          /\ commandState'[cur] = IF LastCommand THEN "finished" ELSE commandState[cur]
      BY <1>1, <1>2, <1>13 DEF StartEmpty, TypedFiles, system
    <2>2. Done(cur, l)'
      BY <1>3, <1>5, <2>1 DEF Done
    <2>3. CASE UNCHANGED control /\ ~LastCommand /\ line'[cur] = line[cur] + 1
      <3>1. commandState'[cur] # "finished"
        BY <1>1, <2>1, <2>3
      <3> QED  BY <1>1, <1>3, <1>4, <1>6, <1>7, <1>8, <1>9, <1>11, <2>1, <2>2, <2>3, <3>1, OneStatus
    <2>4. CASE Return /\ LastCommand /\ UNCHANGED line
      <3>1. commandState'[cur] = "finished" /\ line[cur] = Len(recipe[cur])
        BY <2>1, <2>4 DEF LastCommand
      <3> QED  BY <1>1, <1>3, <1>4, <1>6, <1>7, <1>8, <1>10, <1>11, <2>1, <2>2, <2>4, <3>1, OneStatus
    <2> QED  BY <1>12, <2>1, <2>3, <2>4
  <1>14. CASE StartBuiltinOk
    <2>1. /\ NextCommand /\ UNCHANGED hasStatus /\ exit'[<<cur, l>>] = "ok"
          /\ commandState'[cur] = IF LastCommand THEN "finished" ELSE "running"
      BY <1>1, <1>2, <1>4, <1>5, <1>14 DEF StartBuiltinOk, TypedFiles, TypedState
    <2>2. Done(cur, l)'
      BY <1>3, <2>1 DEF Done
    <2>3. CASE UNCHANGED control /\ ~LastCommand /\ line'[cur] = line[cur] + 1
      <3>1. commandState'[cur] # "finished"
        BY <1>1, <2>1, <2>3
      <3> QED  BY <1>1, <1>3, <1>4, <1>6, <1>7, <1>8, <1>9, <1>11, <2>1, <2>2, <2>3, <3>1, OneStatus
    <2>4. CASE Return /\ LastCommand /\ UNCHANGED line
      <3>1. commandState'[cur] = "finished" /\ line[cur] = Len(recipe[cur])
        BY <2>1, <2>4 DEF LastCommand
      <3> QED  BY <1>1, <1>3, <1>4, <1>6, <1>7, <1>8, <1>10, <1>11, <2>1, <2>2, <2>4, <3>1, OneStatus
    <2> QED  BY <1>12, <2>1, <2>3, <2>4
  <1>15. CASE StartQuestion \/ StartForkFails
    <2>1. /\ Return /\ UNCHANGED <<line, pid, hasStatus, exit>> /\ commandState'[cur] = "finished"
          /\ updateStatus'[cur] # "success"
      BY <1>1, <1>2, <1>15 DEF StartQuestion, StartForkFails, NoticeFinished, child, system, TypedFiles
    <2> QED  BY <1>1, <1>3, <1>4, <1>6, <1>7, <1>8, <1>10, <1>11, <2>1, OneStatus
  <1>16. CASE StartProcess
    <2>1. /\ Return /\ UNCHANGED <<line, hasStatus>> /\ commandState'[cur] = "running"
          /\ pid'[cur] = <<cur, l>> /\ exit'[<<cur, l>>] = "running"
      BY <1>1, <1>2, <1>4, <1>5, <1>16 DEF StartProcess, TypedFiles, TypedState
    <2>2. OwnPid(cur)'
      BY <1>3, <1>4, <1>6, <2>1 DEF OwnPid
    <2> QED  BY <1>1, <1>3, <1>4, <1>6, <1>7, <1>8, <1>10, <1>11, <2>1, <2>2, OneStatus
  <1>17. CASE StartBuiltinFails
    <2>1. /\ Return /\ UNCHANGED line /\ commandState'[cur] = "running" /\ hasStatus'[cur]
          /\ pid'[cur] = FakePid /\ exit'[<<cur, l>>] = "fail" /\ Line(cur).cmd = "builtin"
      BY <1>1, <1>2, <1>4, <1>5, <1>17 DEF StartBuiltinFails, TypedFiles, TypedState
    <2>2. OwnPid(cur)'
      BY <1>3, <1>4, <1>5, <2>1 DEF OwnPid, Line
    <2> QED  BY <1>1, <1>3, <1>4, <1>6, <1>7, <1>8, <1>10, <1>11, <2>1, <2>2, OneStatus
  <1> QED  BY <1>13, <1>14, <1>15, <1>16, <1>17 DEF StartJobCommand

LEMMA FinishStatuses ==
    ASSUME IInv, Statuses, pc \in {"reap", "reap_started"}, NEW c \in Range(children),
           NEW s, NEW f, FinishChild(c, s, f), UNCHANGED exit,
           NEW l, l = line[c], exit[<<c, l>>] # "running",
           s = "success" => \/ Done(c, l) /\ l = Len(recipe[c])
                            \/ commandState[c] = "finished" /\ updateStatus[c] = "success"
    PROVE  Statuses'
  <1>1. TypedFiles /\ TypedState /\ Chains /\ Recipes /\ c \in Targets /\ Launched \subseteq Targets
    BY LaunchedFacts
  <1>2. Range(children') = Range(children) \ {c}
    BY <1>1, FinishedChild
  <1>3. /\ UNCHANGED <<recipe, line, pid, hasStatus>> /\ pc' \in {"reap", "die"}
        /\ commandState' = [commandState EXCEPT ![c] = "finished"]
        /\ updateStatus' = [updateStatus EXCEPT ![c] = s]
    BY DEF FinishChild, NoticeFinished, given, child
  <1>4. /\ \A t \in Targets : t # c => commandState'[t] = commandState[t] /\ updateStatus'[t] = updateStatus[t]
        /\ commandState'[c] = "finished" /\ updateStatus'[c] = s
    BY <1>1, <1>3 DEF TypedFiles
  <1>5. Launched' = Launched \ {c}
    <2>1. Range(children) \subseteq Targets
      BY LaunchedFacts
    <2> QED  BY <1>1, <1>2, <1>3, <1>4, <2>1 DEF Launched
  <1>6. recipe[c] # <<>>
    BY <1>1 DEF Recipes, OnChain
  <1>7. Done(c, l)' <=> Done(c, l)
    BY <1>3 DEF Done
  <1> QED  BY <1>1, <1>3, <1>4, <1>5, <1>6, <1>7, OneStatus

LEMMA HandleExitStatuses ==
    ASSUME IInv, Statuses, IgnoredLast(recipe), pc = "reap", NEW c \in Range(children),
           NEW e \in Results, HandleExit(c, e), UNCHANGED exit, NEW l, l = line[c], exit[<<c, l>>] = e,
           hasStatus[c] => e = "fail" /\ Line(c).cmd = "builtin"
    PROVE  Statuses'
  <1>1. /\ c \in Targets /\ TypedFiles /\ TypedState /\ Frames /\ Recipes /\ Launched \subseteq Targets
        /\ exit[<<c, l>>] # "running" /\ recipe[c] # <<>>
    BY LaunchedFacts DEF Results, Recipes, OnChain
  <1>2. l \in 1 .. Len(recipe[c]) /\ l \in DOMAIN recipe[c] /\ Line(c) = recipe[c][l]
        /\ Len(recipe[c]) \in Nat
    <2>1. line[c] \in 1 .. Len(recipe[c])
      BY <1>1, LineFacts
    <2>2. DOMAIN recipe[c] = 1 .. Len(recipe[c]) /\ Len(recipe[c]) \in 0 .. MaxLines /\ MaxLines \in Nat
      BY <1>1, Given
    <2> QED  BY <2>1, <2>2 DEF Line
  <1>3. Failure(c, e) = 0 <=> e = "ok"
    BY DEF Failure, Results
  <1>4. CASE FinishChild(c, IF Failure(c, e) = 2 THEN "failed" ELSE "question", Failure(c, e))
    <2>1. PICK s : s = IF Failure(c, e) = 2 THEN "failed" ELSE "question"
      OBVIOUS
    <2>2. PICK f : f = Failure(c, e)
      OBVIOUS
    <2>3. FinishChild(c, s, f) /\ s # "success"
      BY <1>4, <2>1, <2>2
    <2> QED  BY <1>1, <2>3, FinishStatuses
  <1>5. CASE /\ Failure(c, e) = 0 \/ Line(c).noerror
             /\ line[c] = Len(recipe[c])
             /\ FinishChild(c, "success", 0)
    <2>1. Done(c, l)
      BY <1>2, <1>3, <1>5 DEF Done
    <2> QED  BY <1>1, <1>5, <2>1, FinishStatuses
  <1>6. CASE /\ Failure(c, e) = 0 \/ Line(c).noerror
             /\ line[c] < Len(recipe[c])
             /\ line' = [line EXCEPT ![c] = @ + 1]
             /\ cur' = c
             /\ Call("start", "reap_started")
             /\ UNCHANGED <<given, files, pid, hasStatus, chains, tokens, notParallel,
                            new, block, dying, status>>
    <2>1. /\ UNCHANGED <<recipe, pid, hasStatus, commandState, updateStatus, children>>
          /\ pc' = "start" /\ line'[c] = line[c] + 1
          /\ \A t \in Targets : t # c => line'[t] = line[t]
      BY <1>1, <1>6 DEF given, files, chains, Call, TypedFiles
    <2>2. ~hasStatus[c]
      <3>1. CASE hasStatus[c]
        <4>1. recipe[c][l].noerror /\ recipe[c][l].cmd = "builtin"
          BY <1>2, <1>3, <1>6, <3>1
        <4>2. l = Len(recipe[c])
          BY <1>1, <1>2, <4>1 DEF IgnoredLast
        <4> QED  BY <1>2, <1>6, <4>2
      <3> QED  BY <3>1
    <2>3. Done(c, l)'
      <3>1. Done(c, l)
        BY <1>2, <1>3, <1>6 DEF Done
      <3> QED  BY <2>1, <3>1 DEF Done
    <2>4. Launched' = Launched \ {c}
      BY <1>6, <2>1 DEF Launched
    <2>5. commandState'[c] = "running"
      <3>1. ~Restarting
        BY <1>1, Shapes DEF Restarting, Labels, Bottoms, Backs
      <3> QED  BY <2>1, <3>1, LaunchedFacts DEF States
    <2> QED  BY <1>1, <2>1, <2>2, <2>3, <2>4, <2>5, OneStatus
  <1> QED  BY <1>4, <1>5, <1>6 DEF HandleExit

(* The child reap_children() takes for the one that has ended has ended.   *)
LEMMA EndedChild ==
    ASSUME IInv, Statuses, pc = "reap", NEW p, Matching(p) # {},
           \/ Completed = {}
           \/ Completed # {} /\ p = pid[CompletedChild]
    PROVE  /\ ChildOf(p) \in Launched /\ ChildOf(p) \in Range(children)
           /\ Completed = {} => pid[ChildOf(p)] = <<ChildOf(p), line[ChildOf(p)]>> /\ pid[ChildOf(p)] = p
                                /\ ~hasStatus[ChildOf(p)]
           /\ Completed # {} => /\ exit[<<ChildOf(p), line[ChildOf(p)]>>] = "fail"
                                /\ Line(ChildOf(p)).cmd = "builtin"
  <1>1. /\ TypedFiles /\ TypedState /\ Frames /\ States /\ Range(children) \subseteq Targets
    BY LaunchedFacts
  <1>2. Range(children) \subseteq Launched
    <2>1. ~Restarting
      BY <1>1, Shapes DEF Restarting, Labels, Bottoms, Backs
    <2> QED  BY <1>1, <2>1 DEF Launched, States
  <1>3. ChildOf(p) \in Range(children) /\ pid[ChildOf(p)] = p
    BY <1>1, ChildOfFacts
  <1>4. OwnPid(ChildOf(p))
    BY <1>2, <1>3 DEF Statuses
  <1>5. CASE Completed = {}
    <2>1. \A t \in Range(children) : ~hasStatus[t]
      BY <1>5 DEF Completed, Range
    <2> QED  BY <1>2, <1>3, <1>4, <1>5, <2>1 DEF OwnPid
  <1>6. CASE Completed # {} /\ p = pid[CompletedChild]
    <2>1. CompletedChild \in Range(children) /\ hasStatus[CompletedChild]
      BY <1>1, <1>6, CompletedFacts
    <2>2. OwnPid(CompletedChild)
      BY <1>2, <2>1 DEF Statuses
    <2>3. p = FakePid
      BY <1>6, <2>1, <2>2 DEF OwnPid
    <2>4. pid[ChildOf(p)] # <<ChildOf(p), line[ChildOf(p)]>>
      <3>1. recipe[ChildOf(p)] # <<>> /\ ChildOf(p) \in Targets
        BY <1>1, <1>3, LaunchedFacts DEF Recipes, OnChain
      <3>2. <<ChildOf(p), line[ChildOf(p)]>> \in Procs
        BY <1>1, <3>1, LineFacts, LaunchedFacts
      <3>3. FakePid \notin Procs
        BY JobsAssumption DEF Procs
      <3> QED  BY <1>3, <2>3, <3>2, <3>3
    <2> QED  BY <1>2, <1>3, <1>4, <1>6, <2>4 DEF OwnPid
  <1> QED  BY <1>5, <1>6

LEMMA ReapStatuses ==
    ASSUME IInv, Statuses, IgnoredLast(recipe), ReapChildren
    PROVE  Statuses'
  <1>1. /\ TypedFiles /\ TypedState /\ Frames /\ States /\ Recipes /\ Launched \subseteq Targets
        /\ Range(children) \subseteq Targets
    BY LaunchedFacts
  <1>2. CASE ReapCompleted
    <2>1. pc = "reap" /\ Completed # {} /\ UNCHANGED exit
      BY <1>2 DEF ReapCompleted, Reaping, system
    <2>2. PICK c : c = ChildOf(pid[CompletedChild])
      OBVIOUS
    <2>3. PICK l : l = line[c]
      OBVIOUS
    <2>4. c \in Range(children) /\ exit[<<c, l>>] = "fail" /\ Line(c).cmd = "builtin"
      BY <1>1, <2>1, <2>2, <2>3, CompletedFacts, EndedChild
    <2>5. HandleExit(c, "fail") /\ "fail" \in Results
      BY <1>2, <2>2 DEF ReapCompleted, Results
    <2> QED  BY <2>1, <2>3, <2>4, <2>5, HandleExitStatuses
  <1>3. ASSUME NEW p \in Procs, ReapProcess(p) PROVE Statuses'
    <2>1. pc = "reap" /\ Completed = {} /\ UNCHANGED exit /\ exit[p] \in Results /\ Matching(p) # {}
      BY <1>3 DEF ReapProcess, Reaping, Zombies
    <2>2. PICK c : c = ChildOf(p)
      OBVIOUS
    <2>3. PICK l : l = line[c]
      OBVIOUS
    <2>4. c \in Range(children) /\ p = <<c, l>> /\ ~hasStatus[c]
      BY <2>1, <2>2, <2>3, EndedChild
    <2>5. PICK e \in Results : e = exit[p]
      BY <2>1
    <2>6. HandleExit(c, e)
      BY <1>3, <2>2, <2>5 DEF ReapProcess
    <2> QED  BY <2>1, <2>3, <2>4, <2>5, <2>6, HandleExitStatuses
  <1>4. CASE ReapStarted /\ commandState[cur] # "running"
    <2>1. /\ pc = "reap_started" /\ FinishChild(cur, updateStatus[cur], 0) /\ UNCHANGED exit
          /\ commandState[cur] = "finished"
      BY <1>4 DEF ReapStarted, system
    <2>2. PICK c : c = cur
      OBVIOUS
    <2>3. PICK s : s = updateStatus[cur]
      OBVIOUS
    <2>4. PICK l : l = line[c]
      OBVIOUS
    <2>5. c \in Range(children) /\ c \in Targets /\ recipe[c] # <<>>
      BY <1>1, <2>1, <2>2 DEF States, Restarting, Labels, Recipes, OnChain
    <2>6. exit[<<c, l>>] # "running"
      <3>1. l \in 1 .. MaxLines
        <4>1. <<c, line[c]>> \in Procs
          BY <1>1, <2>5, LineFacts
        <4> QED  BY <2>4, <4>1 DEF Procs
      <3>2. c \notin Launched
        BY <2>1, <2>2, LaunchedFacts
      <3> QED  BY <2>5, <3>1, <3>2 DEF Statuses
    <2>7. FinishChild(c, s, 0)
      BY <2>1, <2>2, <2>3
    <2> QED  BY <2>1, <2>2, <2>3, <2>4, <2>5, <2>6, <2>7, FinishStatuses
  <1>5. CASE \/ ReapStarted /\ commandState[cur] = "running"
             \/ ReapReturns \/ ReapNothing \/ \E p \in Procs : ReapUnknown(p)
    <2>1. /\ pc \in {"reap", "reap_started"}
          /\ UNCHANGED <<recipe, files, line, pid, hasStatus, exit, children, cur>>
      BY <1>5 DEF ReapStarted, ReapReturns, ReapNothing, ReapUnknown, Reaping, FinishChild, NoticeFinished,
                  given, child, chains, system, locals, files
    <2>2. pc' \notin {"start", "started"}
      <3>1. CASE ReapReturns \/ ReapNothing
        BY <1>1, <3>1, ReturnFrames DEF ReapReturns, ReapNothing, Reaping, Bottoms
      <3>2. CASE ReapStarted \/ \E p \in Procs : ReapUnknown(p)
        BY <2>1, <3>2 DEF ReapStarted, ReapUnknown, Goto, FinishChild, control
      <3> QED  BY <1>5, <3>1, <3>2
    <2>3. Launched' = Launched
      BY <2>1, <2>2 DEF Launched, files
    <2> QED  BY <2>1, <2>3, QuietStatuses DEF files
  <1> QED  BY <1>2, <1>3, <1>4, <1>5 DEF ReapChildren

LEMMA WaitingStatuses ==
    ASSUME IInv, Statuses, QueueJob \/ StartNow \/ Started \/ TakeWaiting
    PROVE  Statuses'
  <1>1. /\ TypedFiles /\ TypedState /\ Frames /\ Chains /\ States /\ Range(children) \subseteq Targets
    BY LaunchedFacts
  <1>2. UNCHANGED <<recipe, updateStatus, line, pid, hasStatus, exit>>
    BY DEF QueueJob, StartNow, Started, TakeWaiting, given, files, child, system
  <1>3. CASE QueueJob
    <2>1. /\ pc = "start_waiting_job" /\ UNCHANGED <<children, cur>>
          /\ commandState' = [commandState EXCEPT ![cur] = "running"]
      BY <1>3 DEF QueueJob, locals
    <2>2. cur \in Targets \ OnChain /\ commandState[cur] # "finished"
      BY <1>1, <2>1 DEF Chains, States, Handling, Labels
    <2>3. pc' \notin {"start", "started"}
      BY <1>1, <1>3, QueueFrames DEF Backs
    <2>4. \A t \in Targets : t # cur => commandState'[t] = commandState[t]
      BY <1>1, <2>1 DEF TypedFiles
    <2>5. commandState'[cur] = "running"
      BY <1>1, <2>1, <2>2 DEF TypedFiles
    <2>6. Launched' = Launched
      BY <1>1, <2>1, <2>2, <2>3, <2>4 DEF Launched, OnChain
    <2> QED  BY <1>2, <2>2, <2>4, <2>5, <2>6, QuietStatuses
  <1>4. CASE StartNow
    <2>1. pc = "start_waiting_job" /\ pc' = "start" /\ UNCHANGED <<commandState, children, cur>>
      BY <1>4 DEF StartNow, Call, files, chains, locals
    <2>2. cur \notin Range(children)
      BY <1>1, <2>1 DEF Chains, Handling, Labels, OnChain
    <2>3. Launched' = Launched
      BY <2>1, <2>2 DEF Launched
    <2> QED  BY <1>2, <2>1, <2>3, QuietStatuses
  <1>5. CASE Started
    <2>1. pc = "started" /\ Return /\ UNCHANGED <<commandState, cur>>
      BY <1>5 DEF Started, files, locals
    <2>2. pc' \notin {"start", "started"} /\ cur \in Targets
      BY <1>1, <2>1, ReturnFrames DEF Chains, Handling, Labels
    <2>3. \/ commandState[cur] = "running" /\ Range(children') = {cur} \cup Range(children)
          \/ commandState[cur] # "running" /\ children' = children
      <3>1. Range(<<cur>> \o children) = {cur} \cup Range(children)
        BY <1>1, <2>2, PushElements DEF TypedState
      <3> QED  BY <1>5, <3>1 DEF Started
    <2>4. Launched' = Launched
      BY <2>1, <2>2, <2>3 DEF Launched
    <2> QED  BY <1>2, <2>1, <2>4, QuietStatuses
  <1>6. CASE TakeWaiting
    <2>1. pc = "take_waiting" /\ pc' = "start_waiting_job" /\ UNCHANGED <<commandState, children>>
      BY <1>6 DEF TakeWaiting, Call, files
    <2>2. Launched' = Launched
      BY <2>1 DEF Launched
    <2> QED  BY <1>2, <2>1, <2>2, QuietStatuses
  <1> QED  BY <1>3, <1>4, <1>5, <1>6

LEMMA OtherStatuses ==
    ASSUME IInv, Statuses,
           \/ StartWaitingJobs \/ NewJobSteps \/ \E t \in Targets : NewJob(t)
           \/ NextRound \/ ReapRound \/ LastRound \/ DieReaps \/ CleanJobserver
    PROVE  Statuses'
  <1>1. Frames
    BY DEF IInv, Core
  <1>2. /\ UNCHANGED <<recipe, commandState, updateStatus, line, pid, hasStatus, exit, children>>
        /\ pc \in Flat \cup {"start_waiting_jobs"}
    BY DEF StartWaitingJobs, NewJobSteps, ReapBefore, WaitSlot, StartWaiting, FreeToken, Acquire,
           StartNewJob, Linear, NewJob, NextRound, ReapRound, LastRound, DieReaps, CleanJobserver,
           Flat, given, files, child, chains, system
  <1>3. pc' \notin {"start", "started"}
    <2>1. CASE StartWaitingJobs
      <3>1. pc = "start_waiting_jobs" /\ (Return \/ pc' = "reap")
        BY <2>1 DEF StartWaitingJobs, ReapThen, Call
      <3> QED  BY <1>1, <3>1, ReturnFrames DEF Backs
    <2>2. CASE ~StartWaitingJobs
      BY <2>2 DEF NewJobSteps, ReapBefore, WaitSlot, StartWaiting, FreeToken, Acquire,
           StartNewJob, Linear, NewJob, NextRound, ReapRound, LastRound, DieReaps, CleanJobserver,
           ReapThen, Call, Goto
    <2> QED  BY <2>1, <2>2
  <1>4. Launched' = Launched
    BY <1>2, <1>3 DEF Launched, Flat
  <1> QED  BY <1>2, <1>4, QuietStatuses

LEMMA OutsideStatuses ==
    ASSUME IInv, Statuses,
           \/ OtherTakes \/ OtherGives \/ \E p \in Procs : ProcessExits(p)
           \/ UNCHANGED vars
    PROVE  Statuses'
  <1>1. /\ UNCHANGED <<recipe, commandState, updateStatus, line, pid, hasStatus, children, pc, cur>>
        /\ UNCHANGED exit \/ \E p \in Procs : ProcessExits(p)
    BY DEF OtherTakes, OtherGives, ProcessExits, vars, given, files, child, chains, system, control, locals
  <1>2. Launched' = Launched
    BY <1>1 DEF Launched
  <1>3. CASE UNCHANGED exit
    BY <1>1, <1>2, <1>3, QuietStatuses
  <1>4. ASSUME NEW p \in Procs, ProcessExits(p) PROVE Statuses'
    <2>1. PICK r \in Results : exit[p] = "running" /\ exit' = [exit EXCEPT ![p] = r]
      BY <1>4 DEF ProcessExits
    <2>2. /\ \A q \in Procs : q # p => exit'[q] = exit[q]
          /\ exit'[p] \in Results
      BY <2>1 DEF IInv, Typed, TypedState
    <2>3. ASSUME NEW t \in Targets, NEW i \in DOMAIN recipe[t], Done(t, i) PROVE Done(t, i)'
      <3>1. <<t, i>> \in Procs
        <4>1. DOMAIN recipe[t] = 1 .. Len(recipe[t]) /\ Len(recipe[t]) \in 0 .. MaxLines /\ MaxLines \in Nat
          BY LaunchedFacts, Given
        <4>2. i \in 1 .. MaxLines
          BY <4>1
        <4> QED  BY <4>2 DEF Procs
      <3> QED  BY <1>1, <2>1, <2>2, <2>3, <3>1 DEF Done, Results
    <2>4. ASSUME NEW t \in Launched, OwnPid(t) PROVE OwnPid(t)'
      <3>1. <<t, line[t]>> \in Procs
        <4>1. t \in Targets /\ recipe[t] # <<>> /\ TypedFiles /\ Recipes
          BY LaunchedFacts DEF Recipes
        <4> QED  BY <4>1, LineFacts
      <3>2. CASE p = <<t, line[t]>>
        BY <1>1, <2>1, <2>2, <2>4, <3>2 DEF OwnPid
      <3>3. CASE p # <<t, line[t]>>
        BY <1>1, <2>2, <2>4, <3>1, <3>3 DEF OwnPid, Line
      <3> QED  BY <3>2, <3>3
    <2>5. \A q \in Procs : exit'[q] = "running" => exit[q] = "running"
      BY <2>1, <2>2 DEF Results
    <2>6. \A t \in Targets, i \in 1 .. MaxLines : exit'[<<t, i>>] = "running" => exit[<<t, i>>] = "running"
      BY <2>5 DEF Procs
    <2> QED  BY <1>1, <1>2, <2>3, <2>4, <2>6 DEF Statuses
  <1> QED  BY <1>1, <1>3, <1>4

LEMMA StatusesInvariance ==
    ASSUME IgnoredBuiltinsLast PROVE Spec => [](IInv /\ Statuses)
  <1>1. ASSUME Init, IInv PROVE Statuses
    <2>1. /\ \A t \in Targets : ~hasStatus[t] /\ line[t] = 1
          /\ \A p \in Procs : exit[p] = "none"
      BY <1>1 DEF Init
    <2>2. Launched = {}
      BY <1>1 DEF Init, Launched, Range
    <2>3. \A t \in Targets : commandState[t] = "finished" => DOMAIN recipe[t] = {}
      BY <1>1 DEF Init
    <2>4. \A t \in Targets, i \in 1 .. MaxLines : exit[<<t, i>>] = "none"
      BY <2>1 DEF Procs
    <2>5. \A t \in Targets, i \in 1 .. MaxLines : ~(i < line[t])
      BY <2>1
    <2> QED  BY <2>1, <2>2, <2>3, <2>4, <2>5 DEF Statuses
  <1>2. ASSUME IInv, Statuses, [Next]_vars PROVE Statuses'
    <2>1. IgnoredLast(recipe)
      BY <1>2 DEF IgnoredBuiltinsLast, IInv, Typed, TypedFiles, Makefiles
    <2> QED  BY <1>2, <2>1, StartStatuses, ReapStatuses, WaitingStatuses, OtherStatuses, OutsideStatuses
             DEF Next, Kmk, WaitingJobs
  <1> QED  BY <1>1, <1>2, Invariance, InitInv, PTL DEF Spec

(* A target that is said to be up to date has had every line of its recipe *)
(* run to its end, and none failed but those whose failure is ignored.     *)
THEOREM DoneWhenSaid ==
    ASSUME IgnoredBuiltinsLast PROVE Spec => []SuccessMeansDone
  <1>1. ASSUME Statuses PROVE SuccessMeansDone
    BY <1>1 DEF Statuses, SuccessMeansDone, Done
  <1> QED  BY <1>1, StatusesInvariance, PTL

(* No command of a finished target still runs: each was reaped with its    *)
(* own exit status.                                                        *)
THEOREM OwnStatus ==
    ASSUME IgnoredBuiltinsLast PROVE Spec => []StatusIsOwn
  <1>1. ASSUME IInv, Statuses PROVE StatusIsOwn
    <2> SUFFICES ASSUME NEW t \in Targets, commandState[t] = "finished", NEW p \in Alive, p[1] = t
                 PROVE  FALSE
      BY DEF StatusIsOwn
    <2>1. PICK i \in 1 .. MaxLines : p = <<t, i>>
      BY DEF Alive, Procs
    <2>2. exit[<<t, i>>] = "running"
      BY <2>1 DEF Alive
    <2>3. t \in Launched
      BY <1>1, <2>2 DEF Statuses
    <2> QED  BY <1>1, <2>3, LaunchedFacts
  <1> QED  BY <1>1, StatusesInvariance, PTL
=============================================================================
