---------------------------- MODULE RemakeProofs ----------------------------
(***************************************************************************)
(* Theorems about Remake, for any files, makefiles, options and number of  *)
(* recipes at a time.                                                      *)
(***************************************************************************)
EXTENDS Remake, Lemmas

-----------------------------------------------------------------------------
(* The stack of activations.                                               *)
LEMMA PushedFrame ==
    ASSUME NEW S, NEW s \in Seq(S), NEW x \in S
    PROVE  LET p == <<x>> \o s
           IN  /\ p \in Seq(S) /\ Len(p) = Len(s) + 1 /\ p # <<>>
               /\ p[1] = x /\ Head(p) = x
               /\ \A k \in 2 .. Len(s) + 1 : p[k] = s[k - 1]
  OBVIOUS

LEMMA PoppedFrame ==
    ASSUME NEW S, NEW s \in Seq(S), s # <<>>
    PROVE  /\ Tail(s) \in Seq(S) /\ Len(Tail(s)) = Len(s) - 1 /\ Len(s) \in Nat \ {0}
           /\ \A k \in 1 .. Len(s) - 1 : Tail(s)[k] = s[k + 1]
           /\ Head(s) = s[1] /\ Head(s) \in S
  OBVIOUS

LEMMA ReplacedFrame ==
    ASSUME NEW S, NEW s \in Seq(S), s # <<>>, NEW x \in S
    PROVE  LET p == <<x>> \o Tail(s)
           IN  /\ p \in Seq(S) /\ Len(p) = Len(s) /\ p # <<>>
               /\ p[1] = x /\ Head(p) = x
               /\ \A k \in 2 .. Len(s) : p[k] = s[k]
  <1>1. Tail(s) \in Seq(S) /\ Len(Tail(s)) = Len(s) - 1 /\ Len(s) \in Nat \ {0}
        /\ \A k \in 1 .. Len(s) - 1 : Tail(s)[k] = s[k + 1]
    BY PoppedFrame
  <1> QED
    BY <1>1, PushedFrame

(* The order of the edges is a total one, and some edge is the first.      *)
LEMMA FirstIn ==
    ASSUME NEW ds \in SUBSET Dep, ds # {}
    PROVE  First(ds) \in ds
  <1> DEFINE I == {d.nth[1] : d \in ds}
  <1>1. I \subseteq Nat /\ I # {}
    BY DEF Dep
  <1>2. PICK i \in I : \A o \in I : i <= o
    BY <1>1, Least
  <1> DEFINE J == {d.nth[2] : d \in {o \in ds : o.nth[1] = i}}
  <1>3. J \subseteq Nat /\ J # {}
    BY DEF Dep
  <1>4. PICK j \in J : \A o \in J : j <= o
    BY <1>3, Least
  <1>5. PICK d \in ds : d.nth[1] = i /\ d.nth[2] = j
    OBVIOUS
  <1>6. \A o \in ds : Before(d.nth, o.nth)
    <2> SUFFICES ASSUME NEW o \in ds PROVE Before(d.nth, o.nth)
      OBVIOUS
    <2>1. o.nth[1] \in I /\ i \in Nat /\ o.nth[1] \in Nat /\ i <= o.nth[1]
      BY <1>1, <1>2
    <2>2. CASE o.nth[1] = i
      <3>1. o.nth[2] \in J
        BY <2>2
      <3> QED
        BY <1>4, <1>5, <2>2, <3>1 DEF Before
    <2>3. CASE o.nth[1] # i
      BY <1>5, <2>1, <2>3 DEF Before
    <2> QED
      BY <2>2, <2>3
  <1> QED
    BY <1>6 DEF First

-----------------------------------------------------------------------------
(* Types.  A frame that is not the innermost one waits for a prerequisite, *)
(* and the walk stands at a goal.                                          *)
Waiting(fs) == fs \in Seq(Frame) /\ \A k \in 2 .. Len(fs) : fs[k].left # {}

Walking == {"walk", "back", "new_job", "linear"}

TypeInv ==
    /\ TypeOK
    /\ Waiting(frames)
    /\ at # 0 /\ (pc \in Walking => at \in 1 .. Len(goals))

LEMMA PushWaiting ==
    ASSUME NEW fs, Waiting(fs), fs # <<>> => Head(fs).left # {}, NEW x \in Frame
    PROVE  LET p == <<x>> \o fs IN Waiting(p) /\ p # <<>> /\ Head(p) = x
  <1> DEFINE p == <<x>> \o fs
  <1>1. fs \in Seq(Frame) /\ \A k \in 2 .. Len(fs) : fs[k].left # {}
    BY DEF Waiting
  <1>2. /\ p \in Seq(Frame) /\ Len(p) = Len(fs) + 1 /\ p # <<>> /\ Head(p) = x
        /\ \A k \in 2 .. Len(fs) + 1 : p[k] = fs[k - 1]
    BY <1>1, PushedFrame
  <1> HIDE DEF p
  <1>3. ASSUME NEW k \in 2 .. Len(fs) + 1 PROVE p[k].left # {}
    <2>1. CASE k = 2
      <3>1. fs # <<>> /\ Head(fs) = fs[1]
        BY <1>1, <1>3, <2>1, PoppedFrame
      <3> QED
        BY <1>2, <2>1, <3>1
    <2>2. CASE k # 2
      <3>1. k - 1 \in 2 .. Len(fs)
        BY <1>1, <2>2
      <3> QED
        BY <1>1, <1>2, <3>1
    <2> QED
      BY <2>1, <2>2
  <1> QED
    BY <1>2, <1>3 DEF Waiting, p

LEMMA PopWaiting ==
    ASSUME NEW fs, Waiting(fs), fs # <<>>
    PROVE  Waiting(Tail(fs)) /\ (Tail(fs) # <<>> => Head(Tail(fs)).left # {})
  <1> DEFINE t == Tail(fs)
  <1>1. fs \in Seq(Frame) /\ \A k \in 2 .. Len(fs) : fs[k].left # {}
    BY DEF Waiting
  <1>2. /\ t \in Seq(Frame) /\ Len(t) = Len(fs) - 1 /\ Len(fs) \in Nat \ {0}
        /\ \A k \in 1 .. Len(fs) - 1 : t[k] = fs[k + 1]
    BY <1>1, PoppedFrame
  <1> HIDE DEF t
  <1>3. ASSUME NEW k \in 1 .. Len(t) PROVE t[k].left # {}
    <2>1. k \in 1 .. Len(fs) - 1 /\ k + 1 \in 2 .. Len(fs)
      BY <1>2
    <2> QED
      BY <1>1, <1>2, <2>1
  <1>4. t # <<>> => Head(t) = t[1] /\ 1 \in 1 .. Len(t)
    BY <1>2
  <1> QED
    BY <1>2, <1>3, <1>4 DEF Waiting, t

LEMMA ReplaceWaiting ==
    ASSUME NEW fs, Waiting(fs), fs # <<>>, NEW x \in Frame
    PROVE  LET p == <<x>> \o Tail(fs) IN Waiting(p) /\ p # <<>> /\ Head(p) = x
  <1>1. Waiting(Tail(fs)) /\ (Tail(fs) # <<>> => Head(Tail(fs)).left # {})
    BY PopWaiting
  <1> QED
    BY <1>1, PushWaiting

(* The values, apart from the walk's.                                      *)
MarksType ==
    /\ commandState \in [Files -> {"not_started", "deps_running", "running", "finished"}]
    /\ updateStatus \in [Files -> Statuses]
    /\ updated \in [Files -> BOOLEAN]

LEMMA StateOfGroupType ==
    ASSUME MarksType, NEW f \in Files,
           NEW s \in {"not_started", "deps_running", "running", "finished"}
    PROVE  StateOfGroup(f, s) \in [Files -> {"not_started", "deps_running", "running", "finished"}]
  BY DEF MarksType, StateOfGroup

LEMMA NoticeFinishedType ==
    ASSUME MarksType, lastMtime \in [Files -> Nat], NEW f \in Files, NEW s \in Statuses,
           NEW ran, NEW newDisk \in [Files -> Nat], NoticeFinished(f, s, ran, newDisk)
    PROVE  MarksType' /\ lastMtime' \in [Files -> Nat]
  <1>1. commandState' \in [Files -> {"not_started", "deps_running", "running", "finished"}]
    BY StateOfGroupType DEF NoticeFinished
  <1>2. updated' \in [Files -> BOOLEAN]
    BY Zenon DEF NoticeFinished, MarksType
  <1>3. updateStatus' \in [Files -> Statuses]
    <2>1. \A g \in Files :
             (IF g = f \/ (g \in Group(f) /\ (ran \/ s = None))
              THEN (IF s = None THEN Success ELSE s) ELSE updateStatus[g]) \in Statuses
      BY DEF Statuses, MarksType
    <2> QED
      BY <2>1, Zenon DEF NoticeFinished
  <1>4. lastMtime' \in [Files -> Nat]
    BY Zenon DEF NoticeFinished
  <1> QED
    BY <1>1, <1>2, <1>3, <1>4 DEF MarksType

LEMMA ReapType ==
    ASSUME TypeInv, NEW f \in Files, NEW r \in {Success, Failed},
           NEW next \in {"more", "new_job", "linear", "die"}, Reap(f, r, next),
           next \in Walking => pc = next
    PROVE  TypeInv'
  <1> USE DEF TypeInv
  <1>1. disk' \in [Files -> Nat] /\ clock' \in Nat
    <2>1. PICK written \in SUBSET (Group(f) \ make.phony) :
             /\ disk' = [g \in Files |-> IF g \in written THEN clock + 1 ELSE disk[g]]
             /\ clock' = IF written = {} THEN clock ELSE clock + 1
      BY DEF Reap
    <2> QED
      BY <2>1 DEF TypeOK
  <1>2. MarksType /\ r \in Statuses /\ lastMtime \in [Files -> Nat]
    BY DEF TypeOK, MarksType, Statuses
  <1>3. NoticeFinished(f, r, commandState[f] = "running", disk')
    BY DEF Reap
  <1>4. MarksType' /\ lastMtime' \in [Files -> Nat]
    BY <1>1, <1>2, <1>3, NoticeFinishedType
  <1>5. /\ UNCHANGED <<make, deps, considered, updating, goals, at, frames, ret, started>>
        /\ (pc' = "die" /\ status' = Failed) \/ (pc' = next /\ status' = status)
        /\ children' = [children EXCEPT ![f] = @ - 1] /\ children[f] > 0
        /\ lost' \in {lost, lost \cup {f}}
    BY DEF Reap, given, walk
  <1>6. children' \in [Files -> Nat]
    BY <1>5 DEF TypeOK
  <1>7. lost' \subseteq Files /\ status' \in Statuses
    BY <1>2, <1>5 DEF TypeOK, Statuses
  <1>8. /\ pc' \in {"pass", "more", "goal", "walk", "back", "new_job", "linear", "die", "exit"}
        /\ pc' \in {"walk", "new_job", "linear"} => frames' # <<>>
        /\ pc' # "back" /\ (pc' \in Walking => pc \in Walking)
    BY <1>5 DEF TypeOK, Walking
  <1>9. Waiting(frames') /\ at' # 0 /\ (pc' \in Walking => at' \in 1 .. Len(goals'))
    BY <1>5, <1>8
  <1>10. TypeOK'
    BY <1>1, <1>4, <1>5, <1>6, <1>7, <1>8 DEF TypeOK, MarksType
  <1> QED
    BY <1>9, <1>10

-----------------------------------------------------------------------------
(* The operators of the walk.                                              *)
LEMMA GroupType ==
    ASSUME make \in Makefiles, NEW f \in Files
    PROVE  /\ make.group[f] \in Seq(Files) /\ make.group[f] # <<>>
           /\ Head1(f) \in Group(f) /\ f \in Group(f) /\ Group(f) \subseteq Files
           /\ \A g \in Group(f) : make.group[g] = make.group[f]
  <1>1. make.group[f] \in Seq(Files) /\ make.group[f] # <<>> /\ f \in Range(make.group[f])
        /\ \A g \in Range(make.group[f]) : make.group[g] = make.group[f]
    BY RemakeAssumption
  <1>2. Head(make.group[f]) \in Range(make.group[f])
    BY <1>1, TailElements
  <1>3. Range(make.group[f]) \subseteq Files
    <2> DEFINE s == make.group[f]
    <2>1. s \in Seq(Files)
      BY <1>1
    <2> HIDE DEF s
    <2>2. Range(s) = {s[i] : i \in 1 .. Len(s)}
      BY <2>1, RangeEquality
    <2>3. \A i \in 1 .. Len(s) : s[i] \in Files
      BY <2>1, ElementOfSeq
    <2>4. Range(s) \subseteq Files
      BY <2>2, <2>3
    <2> QED
      BY <2>4 DEF s
  <1> QED
    BY <1>1, <1>2, <1>3 DEF Group, Head1

(* A group has one head, which is not a "maybe" member.                    *)
LEMMA GroupHead ==
    ASSUME make \in Makefiles, NEW f \in Files, NEW g \in Group(f)
    PROVE  Head1(g) = Head1(f) /\ Group(g) = Group(f) /\ Head1(f) \notin make.maybe
  <1>1. make.group[g] = make.group[f]
    BY GroupType
  <1>2. Head(make.group[f]) \notin make.maybe
    BY RemakeAssumption
  <1> QED
    BY <1>1, <1>2 DEF Head1, Group

DepsType ==
    /\ DOMAIN deps = Files
    /\ \A f \in Files : DOMAIN deps[f] \subseteq Nat /\ deps[f] \in [DOMAIN deps[f] -> Files]

LEMMA EdgesType ==
    ASSUME make \in Makefiles, DepsType, NEW h \in Files
    PROVE  Edges(h) \subseteq Dep
  <1>1. make.group[h] \in Seq(Files) /\ DOMAIN make.group[h] = 1 .. Len(make.group[h])
        /\ Len(make.group[h]) \in Nat
        /\ \A i \in 1 .. Len(make.group[h]) : make.group[h][i] \in Files
    <2>1. make.group[h] \in Seq(Files)
      BY GroupType
    <2> QED
      BY <2>1, ElementOfSeq, LenProperties
  <1> SUFFICES ASSUME NEW i \in DOMAIN make.group[h], NEW j \in DOMAIN deps[make.group[h][i]]
               PROVE  [nth |-> <<i, j>>,
                       edge |-> <<make.group[h][i], deps[make.group[h][i]][j]>>] \in Dep
    BY DEF Edges
  <1> DEFINE o == make.group[h][i]
  <1>2. o \in Files /\ i \in Nat
    BY <1>1
  <1> HIDE DEF o
  <1>3. j \in DOMAIN deps[o]
    BY DEF o
  <1>4. j \in Nat /\ deps[o][j] \in Files
    BY <1>2, <1>3 DEF DepsType
  <1>5. [nth |-> <<i, j>>, edge |-> <<o, deps[o][j]>>] \in Dep
    BY <1>2, <1>4 DEF Dep
  <1> QED
    BY <1>5 DEF o

LEMMA TopType ==
    ASSUME TypeOK, frames # <<>>
    PROVE  /\ Top \in Frame /\ Top.file \in Files /\ Top.left \in SUBSET Dep
           /\ Top.status \in Statuses
  <1>1. Top \in Frame
    BY PoppedFrame DEF TypeOK, Top
  <1> QED
    BY <1>1 DEF Frame

LEMMA CurrentType ==
    ASSUME TypeOK, frames # <<>>, Top.left # {}
    PROVE  /\ Top \in Frame /\ Current \in Top.left /\ Current \in Dep
           /\ Owner \in Files /\ Prereq \in Files /\ Current.nth[2] \in Nat
  <1>1. Top \in Frame /\ Top.left \in SUBSET Dep
    BY TopType
  <1>3. Current \in Top.left
    BY <1>1, FirstIn DEF Current
  <1>4. Current \in Dep
    BY <1>1, <1>3
  <1> QED
    BY <1>1, <1>3, <1>4 DEF Dep, Owner, Prereq

LEMMA ThisMtimeType ==
    ASSUME make \in Makefiles, lastMtime \in [Files -> Nat], NEW f \in Files
    PROVE  ThisMtime(f) \in Nat
  <1> DEFINE Counted == {g \in Group(f) : \/ g = Head1(f) \/ g \notin make.maybe
                                          \/ (g = f /\ lastMtime[f] = Missing)}
             T == {lastMtime[g] : g \in Counted}
  <1>1. Head1(f) \in Counted /\ Counted \subseteq Files
    BY GroupType
  <1>2. T \subseteq Nat /\ T # {}
    BY <1>1
  <1>3. PICK t \in T : \A u \in T : t <= u
    BY <1>2, Least
  <1>4. \A g \in Counted : lastMtime[g] \in T
    OBVIOUS
  <1>5. (CHOOSE u \in T : \A g \in Counted : u <= lastMtime[g]) \in T
    BY <1>3, <1>4
  <1> QED
    BY <1>2, <1>5 DEF ThisMtime

LEMMA NewFrameType ==
    ASSUME TypeOK, NEW f \in Files
    PROVE  NewFrame(f) \in Frame
  <1>1. make \in Makefiles /\ DepsType /\ lastMtime \in [Files -> Nat]
    BY DEF TypeOK, DepsType
  <1>2. Head1(f) \in Files /\ ThisMtime(f) \in Nat
    BY <1>1, GroupType, ThisMtimeType
  <1>3. Edges(Head1(f)) \in SUBSET Dep
    BY <1>1, <1>2, EdgesType
  <1> QED
    BY <1>2, <1>3 DEF NewFrame, Frame, Statuses, Missing

LEMMA UpdateFileType ==
    ASSUME TypeInv, NEW f \in Files, NEW marked \in SUBSET Files,
           NEW below, Waiting(below), below # <<>> => Head(below).left # {},
           UpdateFile(f, marked, below)
    PROVE  /\ considered' \subseteq Files /\ updating' \subseteq Files /\ ret' \in Statuses
           /\ Waiting(frames') /\ pc' \in {"walk", "back"}
           /\ pc' = "walk" => frames' # <<>>
           /\ pc' = "back" /\ frames' # <<>> => Head(frames').left # {}
  <1>1. make \in Makefiles /\ considered \subseteq Files /\ updateStatus \in [Files -> Statuses]
    BY DEF TypeInv, TypeOK
  <1>2. Head1(f) \in Files
    BY <1>1, GroupType
  <1>3. /\ NewFrame(f) \in Frame
    BY NewFrameType DEF TypeInv
  <1>4. Waiting(<<NewFrame(f)>> \o below) /\ <<NewFrame(f)>> \o below # <<>>
    BY <1>3, PushWaiting
  <1>5. pc' \in {"walk", "back"} => updating' \subseteq Files
    BY <1>2 DEF UpdateFile
  <1>6. CASE Pruned(f, below)
    BY <1>1, <1>5, <1>6 DEF Pruned, Statuses
  <1>7. CASE Consider(f, below) /\ (updated[Head1(f)] \/ commandState[Head1(f)] = "running")
    BY <1>1, <1>2, <1>5, <1>7 DEF Consider, Statuses
  <1>8. CASE Consider(f, below) /\ ~(updated[Head1(f)] \/ commandState[Head1(f)] = "running")
    <2>1. considered' = considered \cup {f} /\ frames' = <<NewFrame(f)>> \o below
          /\ pc' = "walk" /\ ret' = ret
      BY <1>8, Zenon DEF Consider
    <2> QED
      BY <1>1, <1>4, <1>5, <2>1 DEF TypeInv, TypeOK
  <1> QED
    BY <1>6, <1>7, <1>8 DEF UpdateFile

(* The end of an activation.                                               *)
LEMMA ReturnType ==
    ASSUME TypeInv, pc \in Walking, frames # <<>>, NEW value \in Statuses, Return(value),
           UNCHANGED <<given, deps, goals, at>>, status' \in Statuses,
           disk' \in [Files -> Nat], clock' \in Nat, lastMtime' \in [Files -> Nat], MarksType',
           considered' \subseteq Files, updating' \subseteq Files,
           children' \in [Files -> Nat], started' \subseteq Files, lost' \subseteq Files
    PROVE  TypeInv'
  <1>1. Waiting(frames') /\ (frames' # <<>> => Head(frames').left # {})
    BY PopWaiting DEF TypeInv, Return
  <1>2. pc' = "back" /\ ret' = value /\ pc' \in Walking
    BY DEF Return, Walking
  <1>3. TypeOK'
    BY <1>1, <1>2 DEF TypeInv, TypeOK, given, MarksType, Waiting, Top
  <1> QED
    BY <1>1, <1>3 DEF TypeInv

(* A step inside an activation, or the end of the walk.                    *)
LEMMA StayType ==
    ASSUME TypeInv, UNCHANGED <<make, deps, goals, at, frames, ret>>,
           \/ pc' \in {"new_job", "linear"} /\ pc \in Walking /\ frames # <<>>
           \/ pc' = "die",
           status' \in Statuses,
           disk' \in [Files -> Nat], clock' \in Nat, lastMtime' \in [Files -> Nat], MarksType',
           considered' \subseteq Files, updating' \subseteq Files,
           children' \in [Files -> Nat], started' \subseteq Files, lost' \subseteq Files
    PROVE  TypeInv'
  <1>1. /\ make' \in Makefiles /\ DOMAIN deps' = Files
        /\ \A f \in Files : DOMAIN deps'[f] \subseteq Nat /\ deps'[f] \in [DOMAIN deps'[f] -> Files]
        /\ goals' \in Seq(Files) /\ at' \in Nat /\ frames' \in Seq(Frame) /\ ret' \in Statuses
    BY DEF TypeInv, TypeOK
  <1>2. /\ pc' \in {"new_job", "linear", "die"} /\ (pc' \in {"new_job", "linear"} => frames' # <<>>)
        /\ pc' # "back" /\ pc' # "walk" /\ (pc' \in Walking => pc \in Walking)
    BY DEF Walking
  <1>3. TypeOK'
    BY <1>1, <1>2 DEF TypeOK, MarksType
  <1>4. Waiting(frames)' /\ at' # 0 /\ (pc' \in Walking => at' \in 1 .. Len(goals'))
    BY <1>2 DEF TypeInv, Waiting
  <1> QED
    BY <1>3, <1>4 DEF TypeInv

LEMMA PassType ==
    ASSUME TypeInv, PassReaps \/ BeginPass \/ WalkGoal \/ GoalBack \/ EndPass
    PROVE  TypeInv'
  <1>1. CASE PassReaps
    BY <1>1, ReapType DEF PassReaps, Walking
  <1>2. CASE BeginPass
    BY <1>2 DEF BeginPass, TypeInv, TypeOK, Walking, given, times, marks, walk, procs, Top
  <1>3. CASE WalkGoal
    <2>0. /\ at \in Nat \ {0} /\ at <= Len(goals) /\ goals \in Seq(Files)
          /\ UpdateFile(goals[at], updating, <<>>) /\ updating \in SUBSET Files
      BY <1>3 DEF WalkGoal, TypeInv, TypeOK
    <2>a. Waiting(<<>>)
      BY DEF Waiting
    <2>1. at \in 1 .. Len(goals) /\ goals[at] \in Files
      BY <1>3, <2>0 DEF WalkGoal
    <2>2. /\ considered' \subseteq Files /\ updating' \subseteq Files /\ ret' \in Statuses
          /\ Waiting(frames') /\ pc' \in {"walk", "back"}
          /\ pc' = "walk" => frames' # <<>>
          /\ pc' = "back" /\ frames' # <<>> => Head(frames').left # {}
      BY <2>0, <2>a, <2>1, UpdateFileType
    <2>3. UNCHANGED <<given, times, deps, marks, chain, procs>>
      BY <1>3 DEF WalkGoal
    <2> QED
      BY <2>1, <2>2, <2>3
         DEF TypeInv, TypeOK, Waiting, given, times, marks, chain, procs, Top
  <1>4. CASE GoalBack
    <2>1. goals \in Seq(Files) /\ at \in 1 .. Len(goals) /\ goals[at] \in Files
      BY <1>4 DEF GoalBack, TypeInv, TypeOK, Walking
    <2>2. status' \in Statuses
      BY <1>4, <2>1 DEF GoalBack, TypeInv, TypeOK
    <2>3. goals' \in Seq(Files) /\ at' \in Nat \ {0}
      <3>1. SubSeq(goals, 1, at - 1) \o SubSeq(goals, at + 1, Len(goals)) \in Seq(Files)
        BY <2>1, CutElements
      <3>2. at \in Nat \ {0} /\ at + 1 \in Nat \ {0}
        BY <2>1
      <3> QED
        BY <1>4, <2>1, <3>1, <3>2, Zenon DEF GoalBack
    <2>4. pc' = "goal" /\ UNCHANGED <<given, times, deps, marks, walk, procs>>
      BY <1>4 DEF GoalBack
    <2> QED
      BY <2>2, <2>3, <2>4
         DEF TypeInv, TypeOK, Walking, given, times, marks, walk, procs, Top
  <1>5. CASE EndPass
    BY <1>5 DEF EndPass, TypeInv, TypeOK, Walking, given, times, marks, chain, procs, Top
  <1> QED
    BY <1>1, <1>2, <1>3, <1>4, <1>5

LEMMA LoopType ==
    ASSUME TypeInv, CircularDropped \/ CheckDep \/ CheckedDep
    PROVE  TypeInv'
  <1> USE DEF TypeInv
  <1>1. frames # <<>> /\ Top.left # {} /\ pc \in Walking
    BY DEF CircularDropped, CheckDep, CheckedDep, AtPrereq, TypeOK, Walking
  <1>2. /\ Top \in Frame /\ Current \in Top.left /\ Current \in Dep
        /\ Owner \in Files /\ Prereq \in Files
    BY <1>1, CurrentType
  <1>3. CASE CircularDropped
    <2>1. [Top EXCEPT !.left = @ \ {Current}] \in Frame
      BY <1>2 DEF Frame
    <2>2. Waiting(frames') /\ frames' # <<>>
      BY <1>1, <1>3, <2>1, ReplaceWaiting DEF CircularDropped, NextPrereq
    <2>3. /\ DOMAIN deps' = Files
          /\ \A f \in Files : DOMAIN deps'[f] \subseteq Nat /\ deps'[f] \in [DOMAIN deps'[f] -> Files]
      <3>1. CASE deps' = deps
        BY <3>1 DEF TypeOK
      <3>2. CASE deps' = [deps EXCEPT ![Owner] = Restrict(@, DOMAIN @ \ {Current.nth[2]})]
        BY <1>2, <3>2 DEF TypeOK, Restrict
      <3> QED
        BY <1>3, <3>1, <3>2 DEF CircularDropped
    <2>4. UNCHANGED <<given, times, marks, chain, considered, updating, ret, procs, pc>>
          /\ pc = "walk"
      BY <1>3 DEF CircularDropped, AtPrereq
    <2> QED
      BY <2>2, <2>3, <2>4 DEF TypeOK, Waiting, given, times, marks, chain, procs, Top
  <1>4. CASE CheckDep
    <2> DEFINE x == [Top EXCEPT !.before = lastMtime[Prereq]]
               below == <<x>> \o Tail(frames)
    <2>1. x \in Frame /\ x.left # {}
      BY <1>1, <1>2 DEF Frame, TypeOK
    <2>2. Waiting(below) /\ below # <<>> /\ Head(below) = x
      BY <1>1, <2>1, ReplaceWaiting
    <2>3. /\ UpdateFile(Prereq, updating \cup {Prereq}, below)
          /\ UNCHANGED <<given, times, deps, marks, chain, procs>>
      BY <1>4 DEF CheckDep
    <2>4. updating \cup {Prereq} \in SUBSET Files
      BY <1>2 DEF TypeOK
    <2> HIDE DEF below, x
    <2>5. /\ considered' \subseteq Files /\ updating' \subseteq Files /\ ret' \in Statuses
          /\ Waiting(frames') /\ pc' \in {"walk", "back"}
          /\ pc' = "walk" => frames' # <<>>
          /\ pc' = "back" /\ frames' # <<>> => Head(frames').left # {}
      BY <1>2, <2>1, <2>2, <2>3, <2>4, UpdateFileType
    <2> QED
      BY <1>1, <2>3, <2>5 DEF TypeOK, Waiting, given, times, marks, chain, procs, Top
  <1>5. CASE CheckedDep
    <2> DEFINE new   == Larger(Top.status, ret)
               run   == Top.running \/ commandState[Prereq] \in InProgress
               stop  == new # Success /\ ~make.keepGoing
               binds == ~OrderOnly(Current.edge)
               moved == binds /\ ~run /\ (lastMtime[Prereq] # Top.before \/ Top.before = Missing)
               x == [Top EXCEPT !.status = new, !.running = run,
                    !.must = @ \/ (binds /\ OutOfDate(Prereq, Top.mtime)),
                    !.changed = @ \/ moved,
                    !.left = IF stop THEN {} ELSE @ \ {Current}]
    <2>1. new \in Statuses
      BY <1>2 DEF Larger, Frame, TypeOK
    <2>2. run \in BOOLEAN /\ (Top.must \/ (binds /\ OutOfDate(Prereq, Top.mtime))) \in BOOLEAN
          /\ (Top.changed \/ moved) \in BOOLEAN
      BY Zenon
    <2>3. (IF stop THEN {} ELSE Top.left \ {Current}) \in SUBSET Dep
      BY <1>2 DEF Frame
    <2> HIDE DEF new, run, stop, binds, moved
    <2>4. x \in Frame
      BY <1>2, <2>1, <2>2, <2>3 DEF Frame
    <2>5. frames' = <<x>> \o Tail(frames) /\ updating' = updating \ {Prereq} /\ pc' = "walk"
          /\ UNCHANGED <<given, times, deps, marks, chain, considered, ret, procs>>
      BY <1>5 DEF CheckedDep, new, run, stop, binds, moved
    <2> HIDE DEF x
    <2>6. Waiting(frames') /\ frames' # <<>>
      BY <1>1, <2>4, <2>5, ReplaceWaiting
    <2> QED
      BY <1>1, <2>5, <2>6 DEF TypeOK, Waiting, given, times, marks, chain, procs, Top
  <1> QED
    BY <1>3, <1>4, <1>5

LEMMA DecideType ==
    ASSUME TypeInv, NEW f \in Files,
           \/ PrereqsRunning(f) \/ GiveUp(f) \/ NoNeedToRemake(f)
           \/ RemakeWithoutRecipe(f) \/ RunEmptyRecipe(f) \/ MustRemake(f)
    PROVE  TypeInv'
  <1>1. MarksType /\ disk \in [Files -> Nat] /\ lastMtime \in [Files -> Nat]
        /\ clock \in Nat /\ updateStatus[f] \in Statuses
    BY DEF TypeInv, TypeOK, MarksType
  <1>2. /\ pc = "walk" /\ pc \in Walking /\ frames # <<>>
        /\ updating' \subseteq Files /\ considered \subseteq Files
        /\ started \subseteq Files /\ lost \subseteq Files /\ lost \cup {f} \subseteq Files
        /\ children \in [Files -> Nat] /\ status \in Statuses
    BY DEF PrereqsRunning, GiveUp, NoNeedToRemake, RemakeWithoutRecipe, RunEmptyRecipe,
           MustRemake, Decided, Decide, TypeInv, TypeOK, Walking
  <1>3. Top.status \in Statuses
    BY <1>2, TopType DEF TypeInv
  <1>4. Success \in Statuses /\ Failed \in Statuses
    BY DEF Statuses
  <1>5. CASE PrereqsRunning(f)
    <2>1. MarksType' /\ lastMtime' = lastMtime
      BY <1>1, <1>5, StateOfGroupType DEF PrereqsRunning, MarksType, times
    <2> QED
      BY <1>1, <1>2, <1>4, <1>5, <2>1, ReturnType DEF PrereqsRunning, times, chain, procs
  <1>6. CASE GiveUp(f)
    <2>1. /\ NoticeFinished(f, IF Top.status = None THEN Failed ELSE Top.status, FALSE, disk)
          /\ Return(Top.status) /\ UNCHANGED <<given, disk, clock, deps, chain, considered, procs>>
      BY <1>6 DEF GiveUp
    <2>2. (IF Top.status = None THEN Failed ELSE Top.status) \in Statuses
      BY <1>3, <1>4
    <2>3. MarksType' /\ lastMtime' \in [Files -> Nat]
      BY <1>1, <2>1, <2>2, NoticeFinishedType
    <2> QED
      BY <1>1, <1>2, <1>3, <2>1, <2>3, ReturnType DEF chain, procs
  <1>7. CASE NoNeedToRemake(f)
    <2>1. /\ NoticeFinished(f, updateStatus[f], FALSE, disk)
          /\ Return(Success) /\ UNCHANGED <<given, disk, clock, deps, chain, considered, procs>>
      BY <1>7 DEF NoNeedToRemake
    <2>2. MarksType' /\ lastMtime' \in [Files -> Nat]
      BY <1>1, <2>1, NoticeFinishedType
    <2> QED
      BY <1>1, <1>2, <1>4, <2>1, <2>2, ReturnType DEF chain, procs
  <1>8. CASE RemakeWithoutRecipe(f)
    <2>1. \/ /\ NoticeFinished(f, Success, FALSE, disk) /\ Return(Success)
             /\ UNCHANGED <<status, lost>>
          \/ /\ NoticeFinished(f, Failed, FALSE, disk) /\ lost' = lost \cup {f}
             /\ \/ Return(Failed) /\ UNCHANGED status
                \/ pc' = "die" /\ status' = Failed /\ UNCHANGED <<frames, ret>>
      BY <1>8, Zenon DEF RemakeWithoutRecipe
    <2>2. UNCHANGED <<given, disk, clock, deps, goals, at, considered, children, started>>
      BY <1>8 DEF RemakeWithoutRecipe
    <2>3. MarksType' /\ lastMtime' \in [Files -> Nat]
      BY <1>1, <1>4, <2>1, NoticeFinishedType
    <2>4. CASE \/ Return(Success) /\ UNCHANGED <<status, lost>>
               \/ Return(Failed) /\ UNCHANGED status /\ lost' = lost \cup {f}
      <3>1. /\ lost' \subseteq Files /\ started' \subseteq Files /\ children' \in [Files -> Nat]
            /\ disk' \in [Files -> Nat] /\ clock' \in Nat /\ considered' \subseteq Files
            /\ status' \in Statuses /\ UNCHANGED <<given, deps, goals, at>>
        BY <1>1, <1>2, <2>2, <2>4
      <3>2. PICK value \in Statuses : Return(value)
        BY <1>4, <2>4
      <3> QED
        BY <1>2, <2>3, <3>1, <3>2, ReturnType
    <2>5. CASE pc' = "die" /\ status' = Failed /\ UNCHANGED <<frames, ret>> /\ lost' = lost \cup {f}
      <3>1. /\ disk' \in [Files -> Nat] /\ clock' \in Nat
            /\ considered' \subseteq Files /\ children' \in [Files -> Nat]
            /\ started' \subseteq Files /\ lost' \subseteq Files /\ status' \in Statuses
            /\ UNCHANGED <<make, deps, goals, at, frames, ret>> /\ pc' = "die"
        BY <1>1, <1>2, <1>4, <2>2, <2>5 DEF given
      <3> QED
        BY <1>2, <2>3, <3>1, StayType
    <2> QED
      BY <2>1, <2>4, <2>5
  <1>9. CASE RunEmptyRecipe(f)
    <2>1. /\ NoticeFinished(f, Success, TRUE, disk)
          /\ Return(Success) /\ UNCHANGED <<given, disk, clock, deps, chain, considered, procs>>
      BY <1>9 DEF RunEmptyRecipe
    <2>2. MarksType' /\ lastMtime' \in [Files -> Nat]
      BY <1>1, <1>4, <2>1, NoticeFinishedType
    <2> QED
      BY <1>1, <1>2, <1>4, <2>1, <2>2, ReturnType DEF chain, procs
  <1>10. CASE MustRemake(f)
    <2>1. commandState' \in [Files -> {"not_started", "deps_running", "running", "finished"}]
      BY <1>1, <1>10, StateOfGroupType DEF MustRemake
    <2>2. /\ pc' = "new_job"
          /\ UNCHANGED <<given, times, deps, updateStatus, updated, chain, considered, frames,
                         ret, procs>>
      BY <1>10 DEF MustRemake
    <2>3. /\ UNCHANGED <<make, deps, goals, at, frames, ret>> /\ status' \in Statuses
          /\ disk' \in [Files -> Nat] /\ clock' \in Nat /\ lastMtime' \in [Files -> Nat]
          /\ considered' \subseteq Files
          /\ children' \in [Files -> Nat] /\ started' \subseteq Files /\ lost' \subseteq Files
      BY <1>1, <1>2, <2>2 DEF given, times, chain, procs
    <2>4. MarksType'
      BY <1>1, <2>1, <2>2 DEF MarksType
    <2> QED
      BY <1>2, <2>2, <2>3, <2>4, StayType
  <1> QED
    BY <1>5, <1>6, <1>7, <1>8, <1>9, <1>10

LEMMA JobType ==
    ASSUME TypeInv,
           NewJobReaps \/ LinearReaps \/ LinearDone \/ Die \/ \E f \in Files : NewJob(f)
    PROVE  TypeInv'
  <1>1. CASE NewJobReaps
    BY <1>1, ReapType DEF NewJobReaps
  <1>2. CASE LinearReaps
    BY <1>2, ReapType DEF LinearReaps
  <1>3. CASE LinearDone
    <2>1. frames # <<>> /\ pc \in Walking
      BY <1>3 DEF LinearDone, TypeInv, TypeOK, Walking
    <2>2. Top.file \in Files
      BY <2>1, TopType DEF TypeInv
    <2>3. updateStatus[Top.file] \in Statuses /\ Return(updateStatus[Top.file])
          /\ UNCHANGED <<given, times, deps, marks, chain, considered, updating, procs>>
      BY <1>3, <2>2 DEF LinearDone, TypeInv, TypeOK
    <2>4. /\ status' \in Statuses /\ MarksType' /\ considered' \subseteq Files
          /\ disk' \in [Files -> Nat] /\ clock' \in Nat /\ lastMtime' \in [Files -> Nat]
          /\ updating' \subseteq Files
          /\ children' \in [Files -> Nat] /\ started' \subseteq Files /\ lost' \subseteq Files
          /\ UNCHANGED <<given, deps, goals, at>>
      BY <2>3 DEF times, marks, chain, procs, TypeInv, TypeOK, MarksType
    <2> QED
      BY <2>1, <2>3, <2>4, ReturnType
  <1>4. CASE Die
    <2>1. CASE pc' = "exit" /\ UNCHANGED <<times, marks, chain, walk, procs, given, deps>>
      BY <2>1 DEF TypeInv, TypeOK, Walking, given, times, marks, chain, walk, procs
    <2>2. CASE \E f \in Files, r \in {Success, Failed} : Reap(f, r, "die")
      BY <2>2, ReapType DEF Walking
    <2> QED
      BY <1>4, <2>1, <2>2 DEF Die
  <1>5. ASSUME NEW f \in Files, NewJob(f)
        PROVE  TypeInv'
    <2>1. frames # <<>> /\ pc \in Walking
      BY <1>5 DEF NewJob, TypeInv, TypeOK, Walking
    <2>2. MarksType' /\ children' \in [Files -> Nat] /\ started' \subseteq Files
      <3>1. MarksType /\ children \in [Files -> Nat] /\ started \subseteq Files
        BY DEF TypeInv, TypeOK, MarksType
      <3> QED
        BY <1>5, <3>1, StateOfGroupType DEF NewJob, MarksType
    <2>3. UNCHANGED <<given, times, deps, chain, considered, updating, lost>>
      BY <1>5 DEF NewJob
    <2>4. /\ status' \in Statuses /\ considered' \subseteq Files
          /\ disk' \in [Files -> Nat] /\ clock' \in Nat /\ lastMtime' \in [Files -> Nat]
          /\ updating' \subseteq Files /\ lost' \subseteq Files
          /\ UNCHANGED <<given, deps, goals, at>>
      BY <2>3 DEF times, chain, TypeInv, TypeOK
    <2>5. CASE Return(Success)
      BY <2>1, <2>2, <2>4, <2>5, ReturnType DEF Statuses
    <2>6. CASE pc' = "linear" /\ UNCHANGED <<frames, ret>>
      <3>1. UNCHANGED <<make, deps, goals, at, frames, ret>> /\ pc' = "linear"
        BY <2>4, <2>6 DEF given
      <3> QED
        BY <2>1, <2>2, <2>4, <3>1, StayType
    <2> QED
      BY <1>5, <2>5, <2>6, Zenon DEF NewJob
  <1> QED
    BY <1>1, <1>2, <1>3, <1>4, <1>5

LEMMA InitType == ASSUME Init PROVE TypeInv
  <1>1. /\ make.deps \in [Files -> Seq(Files)] /\ make.goals \in Seq(Files)
    BY RemakeAssumption DEF Init
  <1>2. ASSUME NEW f \in Files
        PROVE  DOMAIN deps[f] \subseteq Nat /\ deps[f] \in [DOMAIN deps[f] -> Files]
    <2>1. deps[f] \in Seq(Files)
      BY <1>1 DEF Init
    <2>2. DOMAIN deps[f] = 1 .. Len(deps[f]) /\ deps[f] \in [1 .. Len(deps[f]) -> Files]
      BY <2>1, LenProperties
    <2> QED
      BY <2>2
  <1>3. disk \in [Files -> Nat] /\ clock \in Nat
    <2>1. disk \in [Files -> 0 .. 2] /\ clock = 2
      BY DEF Init, NewestOld
    <2> QED
      BY <2>1
  <1>4. Waiting(frames)
    BY DEF Init, Waiting
  <1> QED
    BY <1>1, <1>2, <1>3, <1>4 DEF Init, TypeInv, TypeOK, Statuses, Walking

LEMMA StepType == ASSUME TypeInv, [Next]_vars PROVE TypeInv'
  <1>1. CASE Next
    BY <1>1, PassType, LoopType, DecideType, JobType DEF Next
  <1>2. CASE UNCHANGED vars
    BY <1>2 DEF TypeInv, TypeOK, Waiting, vars, given, times, marks, chain, walk, procs, Top
  <1> QED
    BY <1>1, <1>2

(* Every variable keeps its type, and there is an activation of            *)
(* update_file_1() wherever the code works on one, waiting for a           *)
(* prerequisite wherever check_dep() returns to it: for every makefile.    *)
THEOREM TypeCorrect == Spec => []TypeOK
  <1>1. Init => TypeInv
    BY InitType
  <1>2. TypeInv /\ [Next]_vars => TypeInv'
    BY StepType
  <1>3. TypeInv => TypeOK
    BY DEF TypeInv
  <1> QED
    BY <1>1, <1>2, <1>3, PTL DEF Spec

-----------------------------------------------------------------------------
(* The order of the work.  The makefiles whose order is kept: the files    *)
(* have levels such that a prerequisite is not above its target and, if it *)
(* is on the same level, has no group of its own (no cycle leads through a *)
(* rule with several targets); and a rule with several targets has a       *)
(* recipe.                                                                 *)
Layered(m, level) ==
    \A f \in Files : \A d \in Range(m.deps[f]) :
        LET t == Head(m.group[f])
            p == Head(m.group[d])
        IN  \/ f \in m.maybe /\ d = t
            \/ level[p] < level[t]
            \/ level[p] = level[t] /\ Range(m.group[d]) = {d}

Levels  == [Files -> Nat]
Orderly ==
    \A m \in Makefiles :
        /\ \E level \in Levels : Layered(m, level)
        /\ \A f \in Files : Range(m.group[f]) = {f} \/ m.cmds[Head(m.group[f])] # "none"

Level(f) == (CHOOSE level \in Levels : Layered(make, level))[f]

Done(h)   == updated[h] /\ updateStatus[h] = Success
Broken(h) == updated[h] /\ updateStatus[h] # Success
Unmade(h) == ~updated[h] /\ commandState[h] # "running"

(* The members of a group share the marks of their head, which has the     *)
(* child; only the status of a failure need not reach them.                *)
Grouped ==
    \A f \in Files :
        /\ commandState[f] = commandState[Head1(f)] /\ updated[f] = updated[Head1(f)]
        /\ updated[f] <=> commandState[f] = "finished"
        /\ ~updated[f] => updateStatus[f] = None
        /\ updated[f] => /\ updateStatus[Head1(f)] # None
                         /\ \/ updateStatus[f] = updateStatus[Head1(f)]
                            \/ updateStatus[f] = None /\ updateStatus[Head1(f)] = Failed
        /\ children[f] = IF f = Head1(f) /\ commandState[f] = "running" THEN 1 ELSE 0

DepsLeft == \A f \in Files : Range(deps[f]) \subseteq Range(make.deps[f])

(* What an activation has found out about the edges it is done with.       *)
Sees(x) ==
    /\ x.file \in Heads /\ x.left \subseteq Edges(x.file)
    /\ \A d \in Edges(x.file) \ x.left :
          HackEdge(d.edge) \/ Done(Head1(d.edge[2])) \/ x.running \/ x.status # Success
    /\ x.status # Success =>
          \E d \in Edges(x.file) : ~HackEdge(d.edge) /\ Broken(Head1(d.edge[2]))

Asks(x)     == First(x.left).edge[2]
Stacked(fs) == {fs[k].file : k \in 1 .. Len(fs)}

(* The innermost activation works for the second one, and so on; none of   *)
(* the files comes twice.                                                  *)
Chain(fs) ==
    /\ \A k \in 1 .. Len(fs) : Sees(fs[k])
    /\ \A j, k \in 1 .. Len(fs) :
          j < k => fs[j].file # fs[k].file /\ Level(fs[j].file) <= Level(fs[k].file)
    /\ \A k \in 2 .. Len(fs) :
          /\ Head1(Asks(fs[k])) = fs[k - 1].file
          /\ \A j \in k .. Len(fs) : Asks(fs[k]) # fs[j].file

Held(k) == frames[k].file \in updating /\ Unmade(frames[k].file)

Stack ==
    /\ Chain(frames)
    /\ \A k \in 1 .. Len(frames) : k > 1 \/ pc \in {"walk", "back"} => Held(k)
    /\ pc \in {"pass", "more", "goal"} => frames = <<>>
    /\ pc \in {"new_job", "linear"} =>
          /\ Top.left = {} /\ ~Top.running /\ Top.status = Success /\ Top.file \notin updating
          /\ pc = "new_job" => Unmade(Top.file)
    /\ \A u \in updating :
          \E k \in 1 .. Len(frames) :
              u = frames[k].file \/ ((k > 1 \/ pc = "back") /\ u = Asks(frames[k]))

(* A file that was considered in this pass is settled, waits, or is still  *)
(* being looked at.                                                        *)
Considered ==
    \A f \in considered :
        updated[f] \/ commandState[f] \in InProgress \/ Head1(f) \in Stacked(frames)

(* What update_file() returned says what became of the prerequisite.       *)
Returned ==
    pc = "back" /\ frames # <<>> =>
        LET h == Head1(Prereq)
        IN  /\ Prereq \notin Stacked(frames)
            /\ \/ commandState[Prereq] \in InProgress /\ ret = Success
               \/ updated[h] /\ (ret = Success <=> Done(h))

OrderInv ==
    /\ TypeInv /\ Grouped /\ DepsLeft
    /\ pc \notin {"die", "exit"} => Stack /\ Considered /\ Returned

-----------------------------------------------------------------------------
(* Groups.                                                                 *)
LEMMA HeadOfGroup ==
    ASSUME make \in Makefiles, NEW f \in Files
    PROVE  /\ Head1(f) \in Heads /\ Head1(f) \in Files /\ Head1(Head1(f)) = Head1(f)
           /\ Head1(f) \notin make.maybe
           /\ \A g \in Files : g \in Group(f) <=> Head1(g) = Head1(f)
  <1>1. Head1(f) \in Files /\ Head1(f) \in Group(f)
    BY GroupType
  <1>2. Head1(Head1(f)) = Head1(f) /\ Group(Head1(f)) = Group(f) /\ Head1(f) \notin make.maybe
    BY <1>1, GroupHead
  <1>3. ASSUME NEW g \in Files, Head1(g) = Head1(f) PROVE g \in Group(f)
    <2>1. Head1(g) \in Group(g) /\ g \in Group(g)
      BY GroupType
    <2>2. Group(Head1(g)) = Group(g)
      BY <2>1, GroupHead
    <2> QED
      BY <1>2, <1>3, <2>1, <2>2
  <1>4. \A g \in Group(f) : Head1(g) = Head1(f)
    BY GroupHead
  <1> QED
    BY <1>1, <1>2, <1>3, <1>4 DEF Heads

(* The group of h is settled, the others keep their marks.                 *)
Settles(h, s) ==
    /\ updated'[h] /\ updateStatus'[h] = s
    /\ \A f \in Files : IF Head1(f) = h
          THEN commandState'[f] = "finished" /\ updated'[f]
          ELSE /\ commandState'[f] = commandState[f] /\ updated'[f] = updated[f]
               /\ updateStatus'[f] = updateStatus[f]

(* notice_finished_file() for the head of a group that is not settled.     *)
LEMMA NoticeFinishedMarks ==
    ASSUME make \in Makefiles, MarksType, Grouped, UNCHANGED make,
           NEW h \in Heads, ~updated[h], NEW s \in Statuses, NEW ran \in BOOLEAN, NEW newDisk,
           NoticeFinished(h, s, ran, newDisk),
           Group(h) = {h} \/ ran \/ s # Success, ran => s # None,
           children \in [Files -> Nat], children' = [children EXCEPT ![h] = 0]
    PROVE  Settles(h, IF s = None THEN Success ELSE s) /\ Grouped'
  <1>1. h \in Files /\ Head1(h) = h /\ Success # None /\ Success # Failed /\ None # Failed
    BY DEF Heads, Success, None, Failed
  <1>2. \A f \in Files : f \in Group(h) <=> Head1(f) = h
    BY <1>1, HeadOfGroup
  <1>3. /\ \A f \in Files : commandState'[f] = IF f \in Group(h) THEN "finished" ELSE commandState[f]
        /\ \A f \in Files : updated'[f] = (updated[f] \/ f \in Group(h))
        /\ \A f \in Files : updateStatus'[f] =
              IF f = h \/ (f \in Group(h) /\ (ran \/ s = None))
              THEN (IF s = None THEN Success ELSE s) ELSE updateStatus[f]
    BY DEF NoticeFinished, StateOfGroup
  <1>4. \A f \in Files : Head1(f)' = Head1(f) /\ Head1(f) \in Files /\ Head1(Head1(f)) = Head1(f)
    BY HeadOfGroup DEF Head1
  <1>5. ASSUME NEW f \in Files
        PROVE  IF Head1(f) = h
               THEN commandState'[f] = "finished" /\ updated'[f]
               ELSE /\ commandState'[f] = commandState[f] /\ updated'[f] = updated[f]
                    /\ updateStatus'[f] = updateStatus[f]
    <2>1. CASE Head1(f) = h
      BY <1>2, <1>3, <2>1
    <2>2. CASE Head1(f) # h
      <3>1. f \notin Group(h) /\ f # h
        BY <1>1, <1>2, <2>2
      <3>2. updated[f] \in BOOLEAN
        BY DEF MarksType
      <3>3. updated'[f] = (updated[f] \/ FALSE)
        BY <1>3, <3>1
      <3> QED
        BY <1>3, <2>2, <3>1, <3>2, <3>3
    <2> QED
      BY <2>1, <2>2
  <1>6. updated'[h] /\ updateStatus'[h] = (IF s = None THEN Success ELSE s)
    BY <1>1, <1>2, <1>3
  <1>7. ASSUME NEW f \in Files
        PROVE  /\ commandState'[f] = commandState'[Head1(f)] /\ updated'[f] = updated'[Head1(f)]
               /\ updated'[f] <=> commandState'[f] = "finished"
               /\ ~updated'[f] => updateStatus'[f] = None
               /\ updated'[f] => /\ updateStatus'[Head1(f)] # None
                                 /\ \/ updateStatus'[f] = updateStatus'[Head1(f)]
                                    \/ updateStatus'[f] = None /\ updateStatus'[Head1(f)] = Failed
               /\ children'[f] = IF f = Head1(f) /\ commandState'[f] = "running" THEN 1 ELSE 0
    <2>0. /\ commandState[f] = commandState[Head1(f)] /\ updated[f] = updated[Head1(f)]
          /\ updated[f] <=> commandState[f] = "finished"
          /\ ~updated[f] => updateStatus[f] = None
          /\ updated[f] => /\ updateStatus[Head1(f)] # None
                           /\ \/ updateStatus[f] = updateStatus[Head1(f)]
                              \/ updateStatus[f] = None /\ updateStatus[Head1(f)] = Failed
          /\ children[f] = IF f = Head1(f) /\ commandState[f] = "running" THEN 1 ELSE 0
      BY DEF Grouped
    <2>1. children'[f] = IF f = h THEN 0 ELSE children[f]
      BY <1>1, <2>0 DEF Grouped
    <2>2. CASE Head1(f) # h
      <3>1. /\ commandState'[f] = commandState[f] /\ updated'[f] = updated[f]
            /\ updateStatus'[f] = updateStatus[f]
        BY <1>5, <2>2
      <3>2. /\ commandState'[Head1(f)] = commandState[Head1(f)]
            /\ updated'[Head1(f)] = updated[Head1(f)]
            /\ updateStatus'[Head1(f)] = updateStatus[Head1(f)]
        BY <1>4, <1>5, <2>2
      <3>3. children'[f] = children[f]
        BY <1>1, <2>1, <2>2
      <3> QED
        BY <2>0, <3>1, <3>2, <3>3
    <2>3. CASE Head1(f) = h
      <3>1. /\ commandState'[f] = "finished" /\ updated'[f]
            /\ commandState'[h] = "finished" /\ updated'[h]
        BY <1>1, <1>5, <2>3
      <3>2. updated[f] = FALSE /\ updateStatus[f] = None
        BY <2>0, <2>3 DEF MarksType
      <3>3. children'[f] = 0
        <4>1. CASE f = h
          BY <2>1, <4>1
        <4>2. CASE f # h
          BY <2>0, <2>1, <2>3, <4>2
        <4> QED
          BY <4>1, <4>2
      <3>4. updateStatus'[h] # None
        BY <1>1, <1>6
      <3>5. \/ updateStatus'[f] = updateStatus'[h]
            \/ updateStatus'[f] = None /\ updateStatus'[h] = Failed
        <4>1. CASE f = h
          BY <4>1
        <4>2. CASE f # h /\ (ran \/ s = None)
          BY <1>2, <1>3, <1>6, <2>3, <4>2
        <4>3. CASE f # h /\ ~ran /\ s # None
          <5>1. f \in Group(h)
            BY <1>2, <2>3
          <5>2. s = Failed
            BY <4>3, <5>1 DEF Statuses
          <5>3. updateStatus'[f] = None
            BY <1>3, <3>2, <4>3
          <5> QED
            BY <1>6, <4>3, <5>2, <5>3
        <4> QED
          BY <4>1, <4>2, <4>3
      <3> QED
        BY <2>3, <3>1, <3>2, <3>3, <3>4, <3>5
    <2> QED
      BY <2>2, <2>3
  <1>8. Grouped'
    BY <1>4, <1>7 DEF Grouped
  <1>9. Settles(h, IF s = None THEN Success ELSE s)
    BY <1>5, <1>6 DEF Settles
  <1> QED
    BY <1>8, <1>9

-----------------------------------------------------------------------------
(* The stack.  What is settled stays settled, so that what an activation   *)
(* knows stays true.                                                       *)
Kept ==
    /\ UNCHANGED make
    /\ \A f \in Files : updated[f] => updated'[f] /\ updateStatus'[f] = updateStatus[f]

LEMMA SeesKept ==
    ASSUME make \in Makefiles, DepsType, NEW x \in Frame, Sees(x), Kept, deps' = deps
    PROVE  Sees(x)'
  <1>1. x.file \in Files /\ x.left \subseteq Dep
    BY DEF Frame
  <1>2. Edges(x.file) \subseteq Dep
    BY <1>1, EdgesType
  <1>3. Edges(x.file)' = Edges(x.file) /\ Heads' = Heads
    BY DEF Kept, Edges, Heads, Head1
  <1>4. ASSUME NEW d \in Edges(x.file)
        PROVE  /\ HackEdge(d.edge)' = HackEdge(d.edge)
               /\ Done(Head1(d.edge[2])) => Done(Head1(d.edge[2]))'
               /\ Broken(Head1(d.edge[2])) => Broken(Head1(d.edge[2]))'
    <2>1. d.edge[1] \in Files /\ d.edge[2] \in Files
      BY <1>2 DEF Dep
    <2>2. Head1(d.edge[2]) \in Files
      BY <2>1, GroupType
    <2>3. Head1(d.edge[2])' = Head1(d.edge[2]) /\ HackEdge(d.edge)' = HackEdge(d.edge)
      BY DEF Kept, Head1, HackEdge
    <2> QED
      BY <2>2, <2>3 DEF Kept, Done, Broken
  <1> QED
    BY <1>3, <1>4 DEF Sees

LEMMA ChainKept ==
    ASSUME make \in Makefiles, DepsType, NEW fs \in Seq(Frame), Chain(fs),
           Kept, deps' = deps
    PROVE  Chain(fs)'
  <1>1. ASSUME NEW k \in 1 .. Len(fs) PROVE Sees(fs[k])'
    <2>1. fs[k] \in Frame /\ Sees(fs[k])
      BY DEF Chain
    <2> QED
      BY <2>1, SeesKept
  <1>2. \A f : Level(f)' = Level(f) /\ Head1(f)' = Head1(f)
    BY DEF Kept, Level, Head1
  <1> QED
    BY <1>1, <1>2 DEF Chain, Asks, First, Before

LEMMA ChainPush ==
    ASSUME NEW fs \in Seq(Frame), Chain(fs), NEW x \in Frame, Sees(x),
           \A k \in 1 .. Len(fs) : x.file # fs[k].file /\ Level(x.file) <= Level(fs[k].file),
           fs # <<>> => /\ Head1(Asks(fs[1])) = x.file
                        /\ \A j \in 1 .. Len(fs) : Asks(fs[1]) # fs[j].file
    PROVE  Chain(<<x>> \o fs)
  <1> DEFINE p == <<x>> \o fs
  <1>1. /\ p \in Seq(Frame) /\ Len(p) = Len(fs) + 1 /\ p[1] = x /\ Len(fs) \in Nat
        /\ \A k \in 2 .. Len(fs) + 1 : p[k] = fs[k - 1]
    BY PushedFrame
  <1> HIDE DEF p
  <1>2. ASSUME NEW k \in 1 .. Len(p), k # 1
        PROVE  k - 1 \in 1 .. Len(fs) /\ p[k] = fs[k - 1] /\ k \in 2 .. Len(fs) + 1
    BY <1>1, <1>2
  <1>3. ASSUME NEW k \in 1 .. Len(p) PROVE Sees(p[k])
    <2>1. CASE k = 1
      BY <1>1, <2>1
    <2>2. CASE k # 1
      BY <1>2, <2>2 DEF Chain
    <2> QED
      BY <2>1, <2>2
  <1>4. ASSUME NEW j \in 1 .. Len(p), NEW k \in 1 .. Len(p), j < k
        PROVE  p[j].file # p[k].file /\ Level(p[j].file) <= Level(p[k].file)
    <2>1. k # 1 /\ k - 1 \in 1 .. Len(fs) /\ p[k] = fs[k - 1]
      BY <1>2, <1>4
    <2>2. CASE j = 1
      BY <1>1, <2>1, <2>2
    <2>3. CASE j # 1
      <3>1. j - 1 \in 1 .. Len(fs) /\ p[j] = fs[j - 1] /\ j - 1 < k - 1
        BY <1>2, <1>4, <2>3
      <3> QED
        BY <2>1, <3>1 DEF Chain
    <2> QED
      BY <2>2, <2>3
  <1>5. ASSUME NEW k \in 2 .. Len(p)
        PROVE  /\ Head1(Asks(p[k])) = p[k - 1].file
               /\ \A j \in k .. Len(p) : Asks(p[k]) # p[j].file
    <2>1. k \in 1 .. Len(p) /\ k # 1 /\ k - 1 \in 1 .. Len(fs) /\ p[k] = fs[k - 1]
      BY <1>1, <1>2
    <2>2. ASSUME NEW j \in k .. Len(p)
          PROVE  j - 1 \in (k - 1) .. Len(fs) /\ p[j] = fs[j - 1]
      BY <1>1, <1>2, <2>1
    <2>3. CASE k = 2
      <3>1. fs # <<>> /\ p[k] = fs[1] /\ p[k - 1] = x
        BY <1>1, <2>1, <2>3
      <3>2. ASSUME NEW j \in k .. Len(p) PROVE Asks(fs[1]) # p[j].file
        <4>1. j - 1 \in 1 .. Len(fs) /\ p[j] = fs[j - 1]
          BY <2>2, <2>3
        <4> QED
          BY <3>1, <4>1
      <3> QED
        BY <3>1, <3>2
    <2>4. CASE k # 2
      <3>1. k - 1 \in 2 .. Len(fs) /\ p[k - 1] = fs[(k - 1) - 1]
        <4>1. k - 1 \in 1 .. Len(p) /\ k - 1 # 1
          BY <1>1, <2>4
        <4> QED
          BY <1>1, <1>2, <4>1
      <3>2. /\ Head1(Asks(fs[k - 1])) = fs[(k - 1) - 1].file
            /\ \A j \in (k - 1) .. Len(fs) : Asks(fs[k - 1]) # fs[j].file
        BY <3>1 DEF Chain
      <3> QED
        BY <2>1, <2>2, <3>1, <3>2
    <2> QED
      BY <2>3, <2>4
  <1>6. Chain(p)
    BY <1>3, <1>4, <1>5 DEF Chain
  <1> QED
    BY <1>6 DEF p

LEMMA ChainPop ==
    ASSUME NEW fs \in Seq(Frame), Chain(fs), fs # <<>>
    PROVE  /\ Chain(Tail(fs))
           /\ \A k \in 1 .. Len(Tail(fs)) : fs[1].file # Tail(fs)[k].file
           /\ \A k \in 1 .. Len(Tail(fs)) : Level(fs[1].file) <= Level(Tail(fs)[k].file)
           /\ Tail(fs) # <<>> =>
                /\ Head1(Asks(Tail(fs)[1])) = fs[1].file
                /\ \A k \in 1 .. Len(Tail(fs)) : Asks(Tail(fs)[1]) # Tail(fs)[k].file
  <1> DEFINE t == Tail(fs)
  <1>1. /\ t \in Seq(Frame) /\ Len(t) = Len(fs) - 1 /\ Len(fs) \in Nat \ {0}
        /\ \A k \in 1 .. Len(fs) - 1 : t[k] = fs[k + 1]
    BY PoppedFrame
  <1> HIDE DEF t
  <1>2. ASSUME NEW k \in 1 .. Len(t)
        PROVE  /\ k + 1 \in 1 .. Len(fs) /\ t[k] = fs[k + 1] /\ k + 1 \in 2 .. Len(fs)
               /\ (k + 1) - 1 = k
    BY <1>1
  <1>3. ASSUME NEW k \in 1 .. Len(t) PROVE Sees(t[k])
    BY <1>2 DEF Chain
  <1>4. ASSUME NEW j \in 1 .. Len(t), NEW k \in 1 .. Len(t), j < k
        PROVE  t[j].file # t[k].file /\ Level(t[j].file) <= Level(t[k].file)
    <2>1. j + 1 < k + 1
      BY <1>4
    <2>2. t[j] = fs[j + 1] /\ j + 1 \in 1 .. Len(fs)
      BY <1>2
    <2>3. t[k] = fs[k + 1] /\ k + 1 \in 1 .. Len(fs)
      BY <1>2
    <2>4. fs[j + 1].file # fs[k + 1].file /\ Level(fs[j + 1].file) <= Level(fs[k + 1].file)
      BY <2>1, <2>2, <2>3 DEF Chain
    <2> QED
      BY <2>2, <2>3, <2>4
  <1>5. ASSUME NEW k \in 1 .. Len(t)
        PROVE  /\ Head1(Asks(t[k])) = fs[k].file
               /\ \A j \in k .. Len(t) : Asks(t[k]) # t[j].file
    <2>1. /\ Head1(Asks(fs[k + 1])) = fs[(k + 1) - 1].file
          /\ \A j \in (k + 1) .. Len(fs) : Asks(fs[k + 1]) # fs[j].file
      BY <1>2 DEF Chain
    <2>2. ASSUME NEW j \in k .. Len(t)
          PROVE  Asks(t[k]) # t[j].file
      <3>1. j \in 1 .. Len(t) /\ j + 1 \in (k + 1) .. Len(fs)
        BY <1>1
      <3>2. t[j] = fs[j + 1] /\ t[k] = fs[k + 1]
        BY <1>2, <3>1
      <3> QED
        BY <2>1, <3>1, <3>2
    <2>3. Head1(Asks(t[k])) = fs[k].file
      <3>1. t[k] = fs[k + 1] /\ (k + 1) - 1 = k
        BY <1>2
      <3> QED
        BY <2>1, <3>1
    <2> QED
      BY <2>2, <2>3
  <1>6. ASSUME NEW k \in 2 .. Len(t) PROVE fs[k] = t[k - 1]
    <2>1. k - 1 \in 1 .. Len(t) /\ (k - 1) + 1 = k
      BY <1>1
    <2> QED
      BY <1>2, <2>1
  <1>7. \A k \in 2 .. Len(t) : k \in 1 .. Len(t)
    BY <1>1
  <1>8. Chain(t)
    BY <1>3, <1>4, <1>5, <1>6, <1>7 DEF Chain
  <1>9. ASSUME NEW k \in 1 .. Len(t)
        PROVE  fs[1].file # t[k].file /\ Level(fs[1].file) <= Level(t[k].file)
    <2>1. 1 \in 1 .. Len(fs) /\ k + 1 \in 1 .. Len(fs) /\ 1 < k + 1
      BY <1>1, <1>2
    <2> QED
      BY <1>2, <2>1 DEF Chain
  <1>10. t # <<>> => 1 \in 1 .. Len(t)
    BY <1>1
  <1> QED
    BY <1>5, <1>8, <1>9, <1>10 DEF t

LEMMA ChainReplace ==
    ASSUME NEW fs \in Seq(Frame), Chain(fs), fs # <<>>, NEW x \in Frame, Sees(x),
           x.file = fs[1].file
    PROVE  Chain(<<x>> \o Tail(fs))
  <1>1. Tail(fs) \in Seq(Frame)
    BY PoppedFrame
  <1> QED
    BY <1>1, ChainPop, ChainPush

-----------------------------------------------------------------------------
(* The end of an activation: the caller learns what became of its file.    *)
LEMMA PopInv ==
    ASSUME OrderInv, pc \in {"walk", "new_job", "linear"}, frames # <<>>,
           TypeInv', Grouped', Kept, deps' = deps,
           frames' = Tail(frames), pc' = "back", considered' = considered,
           updating' = updating \ {Top.file},
           \A f \in Files :
              IF Head1(f) = Top.file
              THEN updated'[f] \/ commandState'[f] \in InProgress
              ELSE updated'[f] = updated[f] /\ commandState'[f] = commandState[f],
           \/ commandState'[Top.file] \in InProgress /\ ret' = Success
           \/ updated'[Top.file] /\ (ret' = Success <=> updateStatus'[Top.file] = Success)
    PROVE  OrderInv'
  <1>0. PICK t : t = Tail(frames)
    OBVIOUS
  <1>1. /\ TypeInv /\ Grouped /\ DepsLeft /\ Stack /\ Considered /\ make \in Makefiles
        /\ DepsType /\ frames \in Seq(Frame)
    BY DEF OrderInv, TypeInv, TypeOK, DepsType
  <1>2. /\ t \in Seq(Frame) /\ Len(t) = Len(frames) - 1 /\ Len(frames) \in Nat \ {0}
        /\ \A k \in 1 .. Len(frames) - 1 : t[k] = frames[k + 1]
        /\ Top = frames[1] /\ Top \in Frame
    BY <1>0, <1>1, PoppedFrame DEF Top
  <1>3. Chain(frames) /\ \A k \in 1 .. Len(frames) : k > 1 => Held(k)
    BY <1>1 DEF Stack
  <1>4. /\ Chain(t)
        /\ \A k \in 1 .. Len(t) : Top.file # t[k].file
        /\ t # <<>> => /\ Head1(Asks(t[1])) = Top.file
                       /\ \A k \in 1 .. Len(t) : Asks(t[1]) # t[k].file
    BY <1>0, <1>1, <1>2, <1>3, ChainPop
  <1>5. Top.file \in Files /\ Top.file \in Heads /\ Head1(Top.file) = Top.file
    <2>1. Sees(frames[1]) /\ Top.file \in Files
      BY <1>2, <1>3 DEF Chain, Frame
    <2> QED
      BY <1>2, <2>1 DEF Sees, Heads
  <1>6. \A k \in 1 .. Len(t) : t[k] \in Frame /\ t[k].file \in Files /\ Head1(t[k].file) = t[k].file
    <2>1. ASSUME NEW k \in 1 .. Len(t) PROVE t[k] \in Frame /\ Sees(t[k])
      BY <1>2, <1>4 DEF Chain
    <2> QED
      BY <2>1 DEF Frame, Sees, Heads
  <1>7. Chain(t)'
    BY <1>1, <1>2, <1>4, ChainKept
  <1>8. ASSUME NEW k \in 1 .. Len(t)
        PROVE  /\ t[k].file \in updating' /\ ~updated'[t[k].file]
               /\ commandState'[t[k].file] # "running"
    <2>1. k + 1 \in 1 .. Len(frames) /\ k + 1 > 1 /\ t[k] = frames[k + 1]
      BY <1>2
    <2>2. t[k].file \in updating /\ Unmade(t[k].file)
      BY <1>3, <2>1 DEF Held
    <2>3. t[k].file # Top.file /\ Head1(t[k].file) # Top.file
      BY <1>4, <1>6
    <2> QED
      BY <1>6, <2>2, <2>3 DEF Unmade
  <1>9. ASSUME NEW u \in updating'
        PROVE  \E k \in 1 .. Len(t) : u = t[k].file \/ u = Asks(t[k])
    <2>1. PICK k \in 1 .. Len(frames) :
             u = frames[k].file \/ ((k > 1 \/ pc = "back") /\ u = Asks(frames[k]))
      BY <1>1 DEF Stack
    <2>2. k # 1
      BY <1>2, <2>1
    <2>3. k - 1 \in 1 .. Len(t) /\ (k - 1) + 1 = k
      BY <1>2, <2>2
    <2>4. t[k - 1] = frames[k]
      BY <1>2, <2>3
    <2> QED
      BY <2>1, <2>3, <2>4
  <1>10. Stack'
    <2>1. Chain(frames)'
      BY <1>0, <1>7
    <2>2. \A k \in 1 .. Len(frames') : Held(k)'
      BY <1>0, <1>8 DEF Held, Unmade
    <2>3. ASSUME NEW u \in updating'
          PROVE  \E k \in 1 .. Len(frames') :
                    u = frames'[k].file \/ ((k > 1 \/ pc' = "back") /\ u = Asks(frames'[k]))
      <3>1. PICK k \in 1 .. Len(t) : u = t[k].file \/ u = Asks(t[k])
        BY <1>9
      <3>2. frames' = t
        BY <1>0
      <3>3. k \in 1 .. Len(frames') /\ (u = frames'[k].file \/ u = Asks(frames'[k]))
        BY <3>1, <3>2
      <3> QED
        BY <3>3
    <2>4. pc' \notin {"pass", "more", "goal", "new_job", "linear"}
      OBVIOUS
    <2>5. \A x : Asks(x)' = Asks(x')
      BY DEF Asks, First, Before
    <2> QED
      BY <2>1, <2>2, <2>3, <2>4 DEF Stack, Asks, First, Before
  <1>11. Considered'
    <2> SUFFICES ASSUME NEW f \in considered'
                 PROVE  \/ updated'[f] \/ commandState'[f] \in InProgress
                        \/ Head1(f)' \in Stacked(frames)'
      BY DEF Considered
    <2>1. f \in Files /\ (updated[f] \/ commandState[f] \in InProgress \/ Head1(f) \in Stacked(frames))
      BY <1>1 DEF Considered, TypeInv, TypeOK
    <2>2. CASE Head1(f) = Top.file
      BY <2>1, <2>2
    <2>3. CASE Head1(f) # Top.file /\ (updated[f] \/ commandState[f] \in InProgress)
      BY <2>1, <2>3
    <2>4. CASE Head1(f) # Top.file /\ Head1(f) \in Stacked(frames)
      <3>1. PICK k \in 1 .. Len(frames) : Head1(f) = frames[k].file
        BY <2>4 DEF Stacked
      <3>2. k - 1 \in 1 .. Len(t) /\ t[k - 1] = frames[k]
        BY <1>2, <2>4, <3>1
      <3>3. Head1(f) \in Stacked(t)
        BY <3>1, <3>2 DEF Stacked
      <3>4. Head1(f)' = Head1(f) /\ Stacked(frames)' = Stacked(t)
        BY <1>0 DEF Kept, Head1, Stacked
      <3> QED
        BY <3>3, <3>4
    <2> QED
      BY <2>1, <2>2, <2>3, <2>4
  <1>12. Returned'
    <2> SUFFICES ASSUME t # <<>>
                 PROVE  /\ Prereq' \notin Stacked(frames)'
                        /\ \/ commandState'[Prereq'] \in InProgress /\ ret' = Success
                           \/ updated'[Head1(Prereq)'] /\ (ret' = Success <=> Done(Head1(Prereq))')
      BY <1>0 DEF Returned
    <2>1. Top' = t[1] /\ 1 \in 1 .. Len(t)
      BY <1>0, <1>2 DEF Top
    <2>2. Prereq' = Asks(t[1])
      BY <2>1 DEF Prereq, Current, Asks, First, Before
    <2>3. t[1].left \in SUBSET Dep /\ t[1].left # {}
      <3>1. 2 \in 2 .. Len(frames) /\ t[1] = frames[2]
        BY <1>2, <2>1
      <3>2. frames[2].left # {}
        BY <1>1, <3>1 DEF TypeInv, Waiting
      <3> QED
        BY <1>6, <2>1, <3>1, <3>2 DEF Frame
    <2>4. Asks(t[1]) \in Files
      <3>1. First(t[1].left) \in Dep
        BY <2>3, FirstIn
      <3> QED
        BY <3>1 DEF Asks, Dep
    <2>5. Head1(Prereq)' = Top.file
      BY <1>4, <2>2 DEF Kept, Head1
    <2>6. commandState'[Prereq'] = commandState'[Top.file]
      BY <2>2, <2>4, <2>5 DEF Grouped
    <2>7. Prereq' \notin Stacked(frames)'
      BY <1>0, <1>4, <2>2 DEF Stacked
    <2> QED
      BY <2>5, <2>6, <2>7 DEF Done
  <1>13. DepsLeft'
    BY <1>1 DEF DepsLeft, Kept
  <1> QED
    BY <1>10, <1>11, <1>12, <1>13 DEF OrderInv

-----------------------------------------------------------------------------
(* A child is reaped.                                                      *)
LEMMA ReapMarks ==
    ASSUME TypeInv, Grouped, NEW f \in Files, NEW r \in {Success, Failed},
           NEW next, Reap(f, r, next)
    PROVE  /\ f \in Heads /\ commandState[f] = "running" /\ ~updated[f] /\ Grouped' /\ Kept
           /\ updated'[f] /\ updateStatus'[f] = r
           /\ \A g \in Files : IF Head1(g) = f
                 THEN commandState'[g] = "finished" /\ updated'[g]
                 ELSE /\ commandState'[g] = commandState[g] /\ updated'[g] = updated[g]
                      /\ updateStatus'[g] = updateStatus[g]
  <1>1. /\ children[f] > 0 /\ children' = [children EXCEPT ![f] = @ - 1]
        /\ NoticeFinished(f, r, commandState[f] = "running", disk') /\ UNCHANGED make
    BY DEF Reap, given
  <1>2. /\ make \in Makefiles /\ MarksType /\ children \in [Files -> Nat]
        /\ r \in Statuses /\ r # None
    BY DEF TypeInv, TypeOK, MarksType, Statuses, Success, Failed, None
  <1>3. children[f] = IF f = Head1(f) /\ commandState[f] = "running" THEN 1 ELSE 0
    BY DEF Grouped
  <1>4. f = Head1(f) /\ commandState[f] = "running" /\ children[f] = 1
    BY <1>1, <1>3
  <1>5. f \in Heads
    BY <1>4 DEF Heads
  <1>6. ~updated[f]
    BY <1>4 DEF Grouped
  <1>7. children' = [children EXCEPT ![f] = 0]
    BY <1>1, <1>2, <1>4
  <1>8. NoticeFinished(f, r, TRUE, disk')
    BY <1>1, <1>4
  <1>9. /\ Grouped'
        /\ updated'[f] /\ updateStatus'[f] = (IF r = None THEN Success ELSE r)
        /\ \A g \in Files : IF Head1(g) = f
              THEN commandState'[g] = "finished" /\ updated'[g]
              ELSE /\ commandState'[g] = commandState[g] /\ updated'[g] = updated[g]
                   /\ updateStatus'[g] = updateStatus[g]
    <2>1. Settles(f, IF r = None THEN Success ELSE r) /\ Grouped'
      BY <1>1, <1>2, <1>5, <1>6, <1>7, <1>8, NoticeFinishedMarks
    <2> QED
      BY <2>1 DEF Settles
  <1>10. ASSUME NEW g \in Files, updated[g]
         PROVE  updated'[g] /\ updateStatus'[g] = updateStatus[g]
    <2>1. Head1(g) # f
      BY <1>6, <1>10 DEF Grouped
    <2> QED
      BY <1>9, <1>10, <2>1
  <1>11. Kept
    BY <1>1, <1>10 DEF Kept
  <1> QED
    BY <1>2, <1>4, <1>5, <1>6, <1>9, <1>11

LEMMA ReapInv ==
    ASSUME OrderInv, NEW f \in Files, NEW r \in {Success, Failed},
           NEW next \in {"more", "new_job", "linear", "die"}, Reap(f, r, next),
           \/ pc = next
           \/ pc = "pass" /\ next = "more"
    PROVE  OrderInv'
  <1>1. /\ TypeInv /\ Grouped /\ DepsLeft /\ make \in Makefiles /\ DepsType
        /\ frames \in Seq(Frame)
    BY DEF OrderInv, TypeInv, TypeOK, DepsType
  <1>2. TypeInv'
    <2>1. next \in Walking => pc = next
      BY DEF Walking
    <2> QED
      BY <1>1, <2>1, ReapType
  <1>3. /\ f \in Heads /\ commandState[f] = "running" /\ Grouped' /\ Kept
        /\ \A g \in Files : IF Head1(g) = f
              THEN commandState'[g] = "finished" /\ updated'[g]
              ELSE /\ commandState'[g] = commandState[g] /\ updated'[g] = updated[g]
                   /\ updateStatus'[g] = updateStatus[g]
    BY <1>1, ReapMarks
  <1>4. /\ UNCHANGED <<make, deps, considered, updating, frames, ret>>
        /\ pc' = "die" \/ pc' = next
    BY DEF Reap, given, walk
  <1>5. DepsLeft'
    BY <1>1, <1>4 DEF DepsLeft
  <1>6. CASE pc' = "die"
    BY <1>1, <1>2, <1>3, <1>5, <1>6 DEF OrderInv
  <1>7. CASE pc' = next /\ next # "die"
    <2>1. Stack /\ Considered /\ Chain(frames)
      BY <1>7 DEF OrderInv, Stack
    <2>2. Chain(frames)'
      <3>1. PICK fs : fs = frames
        OBVIOUS
      <3>2. Chain(fs)'
        BY <1>1, <1>3, <1>4, <2>1, <3>1, ChainKept
      <3> QED
        BY <1>4, <3>1, <3>2
    <2>3. ASSUME NEW k \in 1 .. Len(frames), Unmade(frames[k].file) PROVE Unmade(frames[k].file)'
      <3>1. Sees(frames[k]) /\ frames[k] \in Frame
        BY <1>1, <2>1 DEF Chain
      <3>2. frames[k].file \in Files /\ Head1(frames[k].file) = frames[k].file
        BY <3>1 DEF Sees, Heads, Frame
      <3>3. frames[k].file # f
        BY <1>3, <2>3 DEF Unmade
      <3> QED
        BY <1>3, <1>4, <2>3, <3>2, <3>3 DEF Unmade
    <2>4. \A k \in 1 .. Len(frames) : k > 1 => Held(k)'
      <3>1. \A k \in 1 .. Len(frames) : k > 1 => Held(k)
        BY <2>1 DEF Stack
      <3> QED
        BY <1>4, <2>3, <3>1 DEF Held
    <2>5. pc \notin {"walk", "back"} /\ pc' \notin {"walk", "back", "pass", "goal"}
          /\ (pc' = "more" => pc \in {"pass", "more"})
          /\ (pc' \in {"new_job", "linear"} => pc = pc')
      BY <1>7
    <2>6. pc' \in {"new_job", "linear"} => frames # <<>> /\ 1 \in 1 .. Len(frames) /\ Top = frames[1]
      <3>1. pc' \in {"new_job", "linear"} => frames # <<>>
        BY <1>1, <2>5 DEF TypeInv, TypeOK
      <3> QED
        BY <1>1, <3>1, PoppedFrame DEF Top
    <2>7. pc' = "new_job" => Unmade(Top.file)'
      BY <1>4, <2>1, <2>3, <2>5, <2>6 DEF Stack, Top
    <2>8. /\ pc' \in {"pass", "more", "goal"} => frames' = <<>>
          /\ pc' \in {"new_job", "linear"} =>
                Top'.left = {} /\ ~Top'.running /\ Top'.status = Success /\ Top'.file \notin updating'
      BY <1>4, <2>1, <2>5 DEF Stack, Top
    <2>9. ASSUME NEW u \in updating'
          PROVE  \E k \in 1 .. Len(frames') :
                    u = frames'[k].file \/ ((k > 1 \/ pc' = "back") /\ u = Asks(frames'[k]))
      <3>1. PICK k \in 1 .. Len(frames) :
               u = frames[k].file \/ ((k > 1 \/ pc = "back") /\ u = Asks(frames[k]))
        BY <1>4, <2>1 DEF Stack
      <3> QED
        BY <1>4, <2>5, <3>1
    <2>10. Stack'
      BY <1>4, <2>2, <2>4, <2>5, <2>7, <2>8, <2>9 DEF Stack, Asks, First, Before
    <2>11. Considered'
      <3> SUFFICES ASSUME NEW g \in considered'
                   PROVE  \/ updated'[g] \/ commandState'[g] \in InProgress
                          \/ Head1(g)' \in Stacked(frames)'
        BY DEF Considered
      <3>1. g \in Files
            /\ (updated[g] \/ commandState[g] \in InProgress \/ Head1(g) \in Stacked(frames))
        BY <1>1, <1>4, <2>1 DEF Considered, TypeInv, TypeOK
      <3>2. Head1(g)' = Head1(g) /\ Stacked(frames)' = Stacked(frames)
        BY <1>4 DEF Head1, Stacked
      <3> QED
        BY <1>3, <3>1, <3>2
    <2>12. Returned'
      BY <2>5 DEF Returned
    <2> QED
      BY <1>2, <1>3, <1>5, <2>10, <2>11, <2>12 DEF OrderInv
  <1> QED
    BY <1>4, <1>6, <1>7

-----------------------------------------------------------------------------
(* update_file() is called for a file that no activation works on.         *)
LEMMA NewFrameSees ==
    ASSUME TypeInv, NEW f \in Files
    PROVE  /\ NewFrame(f) \in Frame /\ NewFrame(f).file = Head1(f) /\ Sees(NewFrame(f))
  <1>1. NewFrame(f) \in Frame
    BY NewFrameType DEF TypeInv
  <1>2. Head1(f) \in Heads
    BY HeadOfGroup DEF TypeInv, TypeOK
  <1> QED
    BY <1>1, <1>2 DEF NewFrame, Sees

LEMMA UpdateFileInv ==
    ASSUME OrderInv, TypeInv', UNCHANGED <<make, deps, commandState, updateStatus, updated, children>>,
           NEW f \in Files, NEW below \in Seq(Frame), NEW marked \in SUBSET Files,
           pc \in {"goal", "walk"}, UpdateFile(f, marked, below),
           Chain(below), Stacked(below) = Stacked(frames),
           below # <<>> => Asks(below[1]) = f,
           \A k \in 1 .. Len(below) :
              /\ below[k].file \in marked /\ Unmade(below[k].file)
              /\ below[k].file # f /\ below[k].file # Head1(f)
              /\ Level(Head1(f)) <= Level(below[k].file),
           \A u \in marked : \E k \in 1 .. Len(below) : u = below[k].file \/ u = Asks(below[k])
    PROVE  OrderInv'
  <1> DEFINE h == Head1(f)
             Settled == updated[h] \/ commandState[h] = "running"
  <1>1. /\ TypeInv /\ Grouped /\ DepsLeft /\ Considered /\ make \in Makefiles /\ DepsType
        /\ considered \subseteq Files /\ MarksType
    BY DEF OrderInv, TypeInv, TypeOK, DepsType, MarksType
  <1>2. h \in Files /\ h \in Heads /\ Head1(h) = h
    BY <1>1, HeadOfGroup
  <1>3. Grouped' /\ DepsLeft' /\ Kept
    BY <1>1 DEF Grouped, DepsLeft, Head1, Kept
  <1>4. h \notin Stacked(frames)
    <2>1. h \notin Stacked(below)
      BY DEF Stacked
    <2> QED
      BY <2>1
  <1>5. \A g \in Files : commandState[g] = commandState[Head1(g)] /\ updated[g] = updated[Head1(g)]
    BY <1>1 DEF Grouped
  <1>6. Head1(f)' = Head1(f) /\ Stacked(below)' = Stacked(below) /\ \A g : Head1(g)' = Head1(g)
    BY DEF Head1, Stacked
  <1>7. Chain(below)'
    BY <1>1, <1>3, ChainKept
  <1>8. UpdateFile(f, marked, below) =>
          \/ Pruned(f, below) /\ updating' = marked
          \/ Consider(f, below) /\ Settled /\ updating' = marked
          \/ Consider(f, below) /\ ~Settled /\ updating' = marked \cup {h}
    BY DEF UpdateFile, Pruned, Consider
  <1>9. CASE \/ Pruned(f, below) /\ updating' = marked
             \/ Consider(f, below) /\ Settled /\ updating' = marked
    <2>1. /\ pc' = "back" /\ frames' = below /\ updating' = marked
          /\ considered' \in {considered, considered \cup {f}}
      BY <1>9 DEF Pruned, Consider
    <2>2. \/ commandState[f] \in InProgress /\ ret' = Success
          \/ updated[h] /\ (ret' = Success <=> Done(h))
      <3>1. CASE Pruned(f, below)
        <4>1. /\ f \in considered
              /\ ret' = IF commandState[f] = "finished" THEN updateStatus[f] ELSE Success
          BY <3>1 DEF Pruned
        <4>2. updated[f] \/ commandState[f] \in InProgress
          BY <1>1, <1>4, <4>1 DEF Considered
        <4>3. /\ updated[f] <=> commandState[f] = "finished"
              /\ updated[f] => /\ updateStatus[h] # None
                               /\ \/ updateStatus[f] = updateStatus[h]
                                  \/ updateStatus[f] = None /\ updateStatus[h] = Failed
          BY <1>1 DEF Grouped
        <4>4. CASE updated[f]
          BY <1>5, <4>1, <4>3, <4>4 DEF Done, Success, None, Failed
        <4>5. CASE ~updated[f]
          BY <4>1, <4>2, <4>3, <4>5
        <4> QED
          BY <4>4, <4>5
      <3>2. CASE Consider(f, below) /\ Settled
        <4>1. ret' = IF updated[h] /\ updateStatus[h] > None THEN updateStatus[h] ELSE Success
          BY <3>2 DEF Consider
        <4>2. CASE updated[h]
          <5>1. updateStatus[h] \in {Success, Failed}
            <6>1. updateStatus[h] # None
              BY <1>1, <1>2, <4>2 DEF Grouped
            <6>2. updateStatus[h] \in Statuses
              BY <1>1, <1>2 DEF MarksType
            <6> QED
              BY <6>1, <6>2 DEF Statuses
          <5> QED
            BY <4>1, <4>2, <5>1 DEF Done, Success, None, Failed
        <4>3. CASE ~updated[h]
          BY <1>5, <3>2, <4>1, <4>3 DEF InProgress
        <4> QED
          BY <4>2, <4>3
      <3> QED
        BY <1>9, <3>1, <3>2
    <2>3. Stack'
      <3>1. Chain(frames)'
        BY <1>7, <2>1
      <3>2. \A k \in 1 .. Len(frames') : Held(k)'
        BY <2>1 DEF Held, Unmade
      <3>3. \A u \in updating' :
               \E k \in 1 .. Len(frames') :
                  u = frames'[k].file \/ ((k > 1 \/ pc' = "back") /\ u = Asks(frames'[k]))
        BY <2>1
      <3>4. pc' \notin {"pass", "more", "goal", "new_job", "linear"}
        BY <2>1
      <3> QED
        BY <3>1, <3>2, <3>3, <3>4 DEF Stack, Asks, First, Before
    <2>4. Considered'
      <3> SUFFICES ASSUME NEW g \in considered'
                   PROVE  \/ updated'[g] \/ commandState'[g] \in InProgress
                          \/ Head1(g)' \in Stacked(frames)'
        BY DEF Considered
      <3>1. CASE g \in considered
        <4>1. updated[g] \/ commandState[g] \in InProgress \/ Head1(g) \in Stacked(frames)
          BY <1>1, <3>1 DEF Considered
        <4>2. Stacked(frames)' = Stacked(frames)
          BY <1>6, <2>1 DEF Stacked
        <4> QED
          BY <1>6, <4>1, <4>2
      <3>2. CASE g = f
        BY <1>5, <2>2, <3>2
      <3> QED
        BY <2>1, <3>1, <3>2
    <2>5. Returned'
      <3> SUFFICES ASSUME below # <<>>
                   PROVE  /\ Prereq' \notin Stacked(frames)'
                          /\ \/ commandState'[Prereq'] \in InProgress /\ ret' = Success
                             \/ updated'[Head1(Prereq)'] /\ (ret' = Success <=> Done(Head1(Prereq))')
        BY <2>1 DEF Returned
      <3>1. Top' = below[1]
        BY <2>1, PoppedFrame DEF Top
      <3>2. Prereq' = f
        BY <3>1 DEF Prereq, Current, Asks, First, Before
      <3>3. f \notin Stacked(frames)'
        BY <2>1 DEF Stacked
      <3> QED
        BY <1>6, <2>2, <3>2, <3>3 DEF Done
    <2> QED
      BY <1>3, <2>3, <2>4, <2>5 DEF OrderInv
  <1>10. CASE Consider(f, below) /\ ~Settled /\ updating' = marked \cup {h}
    <2>1. PICK x : x = NewFrame(f)
      OBVIOUS
    <2>2. /\ pc' = "walk" /\ frames' = <<x>> \o below
          /\ considered' = considered \cup {f}
      BY <1>10, <2>1, Zenon DEF Consider
    <2>3. x \in Frame /\ x.file = h /\ Sees(x)
      BY <1>1, <2>1, NewFrameSees
    <2>4. PICK p : p = <<x>> \o below
      OBVIOUS
    <2>5. /\ p \in Seq(Frame) /\ Len(p) = Len(below) + 1 /\ p[1] = x /\ Len(below) \in Nat
          /\ \A k \in 2 .. Len(below) + 1 : p[k] = below[k - 1]
      BY <2>3, <2>4, PushedFrame
    <2>6. Chain(p)
      <3>1. \A k \in 1 .. Len(below) :
               x.file # below[k].file /\ Level(x.file) <= Level(below[k].file)
        BY <2>3
      <3>2. below # <<>> => /\ Head1(Asks(below[1])) = x.file
                            /\ \A j \in 1 .. Len(below) : Asks(below[1]) # below[j].file
        BY <2>3
      <3> QED
        BY <2>3, <2>4, <3>1, <3>2, ChainPush
    <2>7. Chain(p)'
      BY <1>1, <1>3, <2>5, <2>6, ChainKept
    <2>8. ASSUME NEW k \in 1 .. Len(p)
          PROVE  p[k].file \in updating' /\ Unmade(p[k].file)
      <3>1. CASE k = 1
        BY <1>10, <2>3, <2>5, <3>1 DEF Unmade
      <3>2. CASE k # 1
        <4>1. k - 1 \in 1 .. Len(below) /\ k \in 2 .. Len(below) + 1
          BY <2>5, <3>2
        <4>2. p[k] = below[k - 1]
          BY <2>5, <4>1
        <4> QED
          BY <1>10, <4>1, <4>2
      <3> QED
        BY <3>1, <3>2
    <2>9. ASSUME NEW u \in updating'
          PROVE  \E k \in 1 .. Len(p) : u = p[k].file \/ ((k > 1 \/ pc' = "back") /\ u = Asks(p[k]))
      <3>1. CASE u = h
        BY <2>3, <2>5, <3>1
      <3>2. CASE u \in marked
        <4>1. PICK k \in 1 .. Len(below) : u = below[k].file \/ u = Asks(below[k])
          BY <3>2
        <4>2. k + 1 \in 2 .. Len(below) + 1 /\ (k + 1) - 1 = k /\ k + 1 \in 1 .. Len(p) /\ k + 1 > 1
          BY <2>5
        <4>3. p[k + 1] = below[k]
          BY <2>5, <4>2
        <4> QED
          BY <4>1, <4>2, <4>3
      <3> QED
        BY <1>10, <3>1, <3>2
    <2>10. frames' = p
      BY <2>2, <2>4
    <2>11. Stack'
      <3>1. Chain(frames)'
        BY <2>7, <2>10
      <3>2. \A k \in 1 .. Len(frames') : Held(k)'
        BY <2>8, <2>10 DEF Held, Unmade
      <3>3. \A u \in updating' :
               \E k \in 1 .. Len(frames') :
                  u = frames'[k].file \/ ((k > 1 \/ pc' = "back") /\ u = Asks(frames'[k]))
        BY <2>9, <2>10
      <3>4. pc' \notin {"pass", "more", "goal", "new_job", "linear"}
        BY <2>2
      <3> QED
        BY <3>1, <3>2, <3>3, <3>4 DEF Stack, Asks, First, Before
    <2>12. Considered'
      <3> SUFFICES ASSUME NEW g \in considered'
                   PROVE  \/ updated'[g] \/ commandState'[g] \in InProgress
                          \/ Head1(g)' \in Stacked(frames)'
        BY DEF Considered
      <3>1. Stacked(below) \cup {h} \subseteq Stacked(frames)'
        <4>1. h \in Stacked(p)
          <5>1. 1 \in 1 .. Len(p)
            BY <2>5
          <5> QED
            BY <2>3, <2>5, <5>1 DEF Stacked
        <4>2. ASSUME NEW k \in 1 .. Len(below) PROVE below[k].file \in Stacked(p)
          <5>1. k + 1 \in 2 .. Len(below) + 1 /\ (k + 1) - 1 = k /\ k + 1 \in 1 .. Len(p)
            BY <2>5
          <5>2. p[k + 1] = below[k]
            BY <2>5, <5>1
          <5> QED
            BY <5>1, <5>2 DEF Stacked
        <4>3. Stacked(below) \subseteq Stacked(p)
          BY <4>2 DEF Stacked
        <4>4. Stacked(frames)' = Stacked(p)
          BY <2>10 DEF Stacked
        <4> QED
          BY <4>1, <4>3, <4>4
      <3>2. CASE g \in considered
        <4>1. updated[g] \/ commandState[g] \in InProgress \/ Head1(g) \in Stacked(frames)
          BY <1>1, <3>2 DEF Considered
        <4> QED
          BY <1>6, <3>1, <4>1
      <3>3. CASE g = f
        BY <1>6, <3>1, <3>3
      <3> QED
        BY <2>2, <3>2, <3>3
    <2>13. Returned'
      BY <2>2 DEF Returned
    <2> QED
      BY <1>3, <2>11, <2>12, <2>13 DEF OrderInv
  <1> QED
    BY <1>8, <1>9, <1>10

-----------------------------------------------------------------------------
(* The edges of a head are the prerequisites of the members of its group.  *)
LEMMA EdgesOfGroup ==
    ASSUME make \in Makefiles, DepsType, NEW h \in Heads
    PROVE  /\ \A d \in Edges(h) : /\ d \in Dep /\ d.edge = <<d.edge[1], d.edge[2]>>
                                  /\ d.edge[1] \in Files /\ d.edge[2] \in Files
                                  /\ Head1(d.edge[1]) = h
                                  /\ d.edge[2] \in Range(deps[d.edge[1]])
           /\ \A o, p \in Files : Head1(o) = h /\ p \in Range(deps[o]) =>
                 \E d \in Edges(h) : d.edge = <<o, p>>
  <1>1. h \in Files /\ Head1(h) = h
    BY DEF Heads
  <1>2. \A g \in Files : g \in Group(h) <=> Head1(g) = h
    BY <1>1, HeadOfGroup
  <1>3. Edges(h) \subseteq Dep
    BY <1>1, EdgesType
  <1>4. ASSUME NEW d \in Edges(h)
        PROVE  /\ d \in Dep /\ d.edge = <<d.edge[1], d.edge[2]>>
               /\ d.edge[1] \in Files /\ d.edge[2] \in Files
               /\ Head1(d.edge[1]) = h
               /\ d.edge[2] \in Range(deps[d.edge[1]])
    <2>1. PICK i \in DOMAIN make.group[h] : \E j \in DOMAIN deps[make.group[h][i]] :
             d = [nth |-> <<i, j>>, edge |-> <<make.group[h][i], deps[make.group[h][i]][j]>>]
      BY DEF Edges
    <2>2. PICK j \in DOMAIN deps[make.group[h][i]] :
             d = [nth |-> <<i, j>>, edge |-> <<make.group[h][i], deps[make.group[h][i]][j]>>]
      BY <2>1
    <2>3. /\ d.edge[1] = make.group[h][i] /\ d.edge[2] = deps[make.group[h][i]][j]
          /\ d.edge = <<d.edge[1], d.edge[2]>>
      BY <2>2
    <2>4. d.edge[1] \in Files /\ d.edge[2] \in Files /\ d \in Dep
      BY <1>3 DEF Dep
    <2>5. d.edge[1] \in Group(h)
      BY <2>3 DEF Group, Range
    <2>6. d.edge[2] \in Range(deps[d.edge[1]])
      BY <2>3 DEF Range
    <2> QED
      BY <1>2, <2>3, <2>4, <2>5, <2>6
  <1>5. ASSUME NEW o \in Files, NEW p \in Files, Head1(o) = h, p \in Range(deps[o])
        PROVE  \E d \in Edges(h) : d.edge = <<o, p>>
    <2>1. o \in Range(make.group[h])
      BY <1>2, <1>5 DEF Group
    <2>2. PICK i \in DOMAIN make.group[h] : o = make.group[h][i]
      BY <2>1 DEF Range
    <2>3. PICK j \in DOMAIN deps[o] : p = deps[o][j]
      BY <1>5 DEF Range
    <2>4. j \in DOMAIN deps[make.group[h][i]]
      BY <2>2
    <2>5. [nth |-> <<i, j>>, edge |-> <<make.group[h][i], deps[make.group[h][i]][j]>>] \in Edges(h)
      <3> DEFINE Of(n) == {[nth |-> <<n, l>>, edge |-> <<make.group[h][n], deps[make.group[h][n]][l]>>] :
                              l \in DOMAIN deps[make.group[h][n]]}
      <3>1. [nth |-> <<i, j>>, edge |-> <<make.group[h][i], deps[make.group[h][i]][j]>>] \in Of(i)
        BY <2>4
      <3>2. Edges(h) = UNION {Of(n) : n \in DOMAIN make.group[h]}
        BY DEF Edges
      <3> HIDE DEF Of
      <3> QED
        BY <3>1, <3>2
    <2> QED
      BY <2>2, <2>3, <2>5
  <1> QED
    BY <1>4, <1>5

(* The prerequisite whose turn it is.                                      *)
LEMMA CurrentEdge ==
    ASSUME OrderInv, pc \in {"walk", "back"}, frames # <<>>, Top.left # {}
    PROVE  /\ Top \in Frame /\ Top = frames[1] /\ 1 \in 1 .. Len(frames) /\ Sees(Top)
           /\ Top.file \in Heads /\ Top.file \in Files /\ Head1(Top.file) = Top.file
           /\ Current \in Top.left /\ Current \in Edges(Top.file) /\ Current \in Dep
           /\ Current.edge = <<Owner, Prereq>> /\ Prereq = Asks(Top)
           /\ Owner \in Files /\ Prereq \in Files /\ Head1(Owner) = Top.file
           /\ Prereq \in Range(deps[Owner])
  <1>1. TypeInv /\ TypeOK /\ Chain(frames) /\ frames \in Seq(Frame)
        /\ make \in Makefiles /\ DepsType
    BY DEF OrderInv, TypeInv, TypeOK, DepsType, Stack
  <1>2. /\ Top \in Frame /\ Current \in Top.left /\ Current \in Dep
        /\ Owner \in Files /\ Prereq \in Files
    BY <1>1, CurrentType
  <1>3. Top = frames[1] /\ 1 \in 1 .. Len(frames)
    BY <1>1, PoppedFrame DEF Top
  <1>4. Sees(Top)
    BY <1>1, <1>3 DEF Chain
  <1>5. Top.file \in Heads /\ Current \in Edges(Top.file)
    BY <1>2, <1>4 DEF Sees
  <1>6. Top.file \in Files /\ Head1(Top.file) = Top.file
    BY <1>5 DEF Heads
  <1>7. /\ Current.edge = <<Current.edge[1], Current.edge[2]>>
        /\ Head1(Current.edge[1]) = Top.file
        /\ Current.edge[2] \in Range(deps[Current.edge[1]])
    BY <1>1, <1>5, EdgesOfGroup
  <1>8. Prereq = Asks(Top)
    BY DEF Prereq, Asks, Current
  <1> QED
    BY <1>2, <1>3, <1>4, <1>5, <1>6, <1>7, <1>8 DEF Owner, Prereq

(* If nothing further up works on the prerequisite itself, nothing works   *)
(* on its head either, in a makefile whose cycles avoid the groups.        *)
LEMMA PrereqIsNew ==
    ASSUME Orderly, OrderInv, pc \in {"walk", "back"}, frames # <<>>, Top.left # {},
           Prereq \notin Stacked(frames)
    PROVE  /\ ~HackEdge(Current.edge)
           /\ \A k \in 1 .. Len(frames) :
                /\ frames[k].file # Prereq /\ frames[k].file # Head1(Prereq)
                /\ Level(Head1(Prereq)) <= Level(frames[k].file)
  <1>1. /\ Top = frames[1] /\ 1 \in 1 .. Len(frames) /\ Top.file \in Files
        /\ Current.edge = <<Owner, Prereq>>
        /\ Owner \in Files /\ Prereq \in Files /\ Head1(Owner) = Top.file
        /\ Prereq \in Range(deps[Owner])
    BY CurrentEdge
  <1>2. make \in Makefiles /\ Chain(frames) /\ frames \in Seq(Frame) /\ DepsLeft
    BY DEF OrderInv, TypeInv, TypeOK, Stack
  <1>3. \A k \in 1 .. Len(frames) : frames[k].file # Prereq
    BY DEF Stacked
  <1>4. ~HackEdge(Current.edge)
    BY <1>1, <1>3 DEF HackEdge
  <1>5. PICK level : level = CHOOSE l \in Levels : Layered(make, l)
    OBVIOUS
  <1>6. level \in Levels /\ Layered(make, level)
    BY <1>2, <1>5 DEF Orderly
  <1>7. \A f \in Files : Level(f) = level[f] /\ Level(f) \in Nat
    BY <1>5, <1>6 DEF Level, Levels
  <1>8. Prereq \in Range(make.deps[Owner])
    BY <1>1, <1>2 DEF DepsLeft
  <1>9. \/ Level(Head1(Prereq)) < Level(Head1(Owner))
        \/ Level(Head1(Prereq)) = Level(Head1(Owner)) /\ Group(Prereq) = {Prereq}
    <2>1. Head1(Prereq) \in Files /\ Head1(Owner) \in Files
      BY <1>1, <1>2, HeadOfGroup
    <2>2. ~(Owner \in make.maybe /\ Prereq = Head1(Owner))
      BY <1>1, <1>4 DEF HackEdge
    <2>3. \/ Owner \in make.maybe /\ Prereq = Head(make.group[Owner])
          \/ level[Head(make.group[Prereq])] < level[Head(make.group[Owner])]
          \/ /\ level[Head(make.group[Prereq])] = level[Head(make.group[Owner])]
             /\ Range(make.group[Prereq]) = {Prereq}
      BY <1>1, <1>6, <1>8 DEF Layered
    <2> QED
      BY <1>7, <2>1, <2>2, <2>3 DEF Head1, Group
  <1>10. Head1(Prereq) \in Files /\ Head1(Prereq) \in Group(Prereq)
    BY <1>1, <1>2, GroupType
  <1>11. ASSUME NEW k \in 1 .. Len(frames)
         PROVE  /\ frames[k].file # Head1(Prereq)
                /\ Level(Head1(Prereq)) <= Level(frames[k].file)
    <2>1. frames[k].file \in Files
      <3>1. frames[k] \in Frame
        BY <1>2
      <3> QED
        BY <3>1 DEF Frame
    <2>2. Level(Top.file) <= Level(frames[k].file)
      <3>1. CASE k = 1
        BY <1>1, <1>7, <3>1
      <3>2. CASE k # 1
        <4>1. 1 < k
          BY <3>2
        <4> QED
          BY <1>1, <1>2, <4>1 DEF Chain
      <3> QED
        BY <3>1, <3>2
    <2>3. Level(Head1(Prereq)) \in Nat /\ Level(Top.file) \in Nat /\ Level(frames[k].file) \in Nat
      BY <1>1, <1>7, <1>10, <2>1
    <2>4. Level(Head1(Prereq)) <= Level(frames[k].file)
      BY <1>1, <1>9, <2>2, <2>3
    <2>5. ASSUME frames[k].file = Head1(Prereq) PROVE FALSE
      <3>1. ~(Level(Head1(Prereq)) < Level(Head1(Owner)))
        BY <1>1, <2>2, <2>3, <2>5
      <3>2. Group(Prereq) = {Prereq}
        BY <1>9, <3>1
      <3>3. Head1(Prereq) = Prereq
        BY <1>10, <3>2
      <3> QED
        BY <1>3, <2>5, <3>3
    <2> QED
      BY <2>4, <2>5
  <1> QED
    BY <1>3, <1>4, <1>11

LEMMA CheckDepInv ==
    ASSUME Orderly, OrderInv, CheckDep, TypeInv'
    PROVE  OrderInv'
  <1>1. /\ pc = "walk" /\ frames # <<>> /\ Top.left # {} /\ Prereq \notin updating
        /\ UNCHANGED <<make, deps, commandState, updateStatus, updated, children>>
        /\ UpdateFile(Prereq, updating \cup {Prereq},
                      <<[Top EXCEPT !.before = lastMtime[Prereq]]>> \o Tail(frames))
    BY DEF CheckDep, AtPrereq, OrderInv, TypeInv, TypeOK, given, marks, procs
  <1>2. /\ Top \in Frame /\ Top = frames[1] /\ Sees(Top) /\ Prereq = Asks(Top)
        /\ Prereq \in Files
    BY <1>1, CurrentEdge
  <1>3. /\ frames \in Seq(Frame) /\ Chain(frames) /\ updating \subseteq Files
        /\ lastMtime \in [Files -> Nat] /\ Stack
    BY <1>1 DEF OrderInv, TypeInv, TypeOK, Stack
  <1>4. \A k \in 1 .. Len(frames) : frames[k].file \in updating /\ Unmade(frames[k].file)
    BY <1>1, <1>3 DEF Stack, Held
  <1>5. Prereq \notin Stacked(frames)
    BY <1>1, <1>4 DEF Stacked
  <1>6. \A k \in 1 .. Len(frames) :
           /\ frames[k].file # Prereq /\ frames[k].file # Head1(Prereq)
           /\ Level(Head1(Prereq)) <= Level(frames[k].file)
    BY <1>1, <1>5, PrereqIsNew
  <1>7. PICK x : x = [Top EXCEPT !.before = lastMtime[Prereq]]
    OBVIOUS
  <1>8. x \in Frame /\ x.file = Top.file /\ Asks(x) = Asks(Top) /\ Sees(x)
    <2>1. lastMtime[Prereq] \in Nat
      BY <1>2, <1>3
    <2>2. /\ x \in Frame /\ x.file = Top.file /\ x.left = Top.left
          /\ x.status = Top.status /\ x.running = Top.running
      BY <1>2, <1>7, <2>1 DEF Frame
    <2> QED
      BY <1>2, <2>2 DEF Asks, Sees
  <1>9. PICK b : b = <<x>> \o Tail(frames)
    OBVIOUS
  <1>10. /\ b \in Seq(Frame) /\ Len(b) = Len(frames) /\ b[1] = x /\ b # <<>>
         /\ \A k \in 2 .. Len(frames) : b[k] = frames[k]
    BY <1>1, <1>3, <1>8, <1>9, ReplacedFrame
  <1>11. Chain(b)
    BY <1>1, <1>2, <1>3, <1>8, <1>9, ChainReplace
  <1>12. ASSUME NEW k \in 1 .. Len(b) PROVE b[k].file = frames[k].file /\ Asks(b[k]) = Asks(frames[k])
    <2>1. CASE k = 1
      BY <1>2, <1>8, <1>10, <2>1
    <2>2. CASE k # 1
      <3>1. k \in 2 .. Len(frames)
        BY <1>10, <2>2
      <3> QED
        BY <1>10, <3>1
    <2> QED
      BY <2>1, <2>2
  <1>13. Stacked(b) = Stacked(frames)
    BY <1>10, <1>12 DEF Stacked
  <1>14. PICK marked : marked = updating \cup {Prereq}
    OBVIOUS
  <1>15. PICK f \in Files : f = Prereq
    BY <1>2
  <1>16. ASSUME NEW u \in marked
         PROVE  \E k \in 1 .. Len(b) : u = b[k].file \/ u = Asks(b[k])
    <2>1. CASE u = Prereq
      <3>1. 1 \in 1 .. Len(b) /\ u = Asks(b[1])
        BY <1>2, <1>8, <1>10, <2>1
      <3> QED
        BY <3>1
    <2>2. CASE u \in updating
      <3>1. PICK k \in 1 .. Len(frames) :
               u = frames[k].file \/ ((k > 1 \/ pc = "back") /\ u = Asks(frames[k]))
        BY <1>3, <2>2 DEF Stack
      <3>2. k \in 1 .. Len(b)
        BY <1>10
      <3> QED
        BY <1>12, <3>1, <3>2
    <2> QED
      BY <1>14, <1>16, <2>1, <2>2
  <1>17. ASSUME NEW k \in 1 .. Len(b)
         PROVE  /\ b[k].file \in marked /\ Unmade(b[k].file)
                /\ b[k].file # f /\ b[k].file # Head1(f)
                /\ Level(Head1(f)) <= Level(b[k].file)
    <2>1. k \in 1 .. Len(frames) /\ b[k].file = frames[k].file
      BY <1>10, <1>12
    <2> QED
      BY <1>4, <1>6, <1>14, <1>15, <2>1
  <1>18. marked \in SUBSET Files /\ UpdateFile(f, marked, b) /\ Asks(b[1]) = f
    BY <1>1, <1>2, <1>3, <1>7, <1>8, <1>9, <1>10, <1>14, <1>15
  <1> QED
    BY <1>1, <1>10, <1>11, <1>13, <1>16, <1>17, <1>18, UpdateFileInv

LEMMA WalkGoalInv ==
    ASSUME OrderInv, WalkGoal, TypeInv'
    PROVE  OrderInv'
  <1>1. /\ pc = "goal" /\ frames = <<>> /\ goals[at] \in Files
        /\ UNCHANGED <<make, deps, commandState, updateStatus, updated, children>>
        /\ UpdateFile(goals[at], updating, <<>>)
    <2>1. at \in Nat /\ at # 0 /\ at <= Len(goals) /\ goals \in Seq(Files) /\ pc = "goal"
      BY DEF WalkGoal, OrderInv, TypeInv, TypeOK
    <2>2. goals[at] \in Files
      BY <2>1
    <2> QED
      BY <2>1, <2>2 DEF WalkGoal, OrderInv, Stack, given, marks, procs
  <1>2. Stack /\ Len(frames) = 0
    BY <1>1 DEF OrderInv
  <1>3. updating = {}
    BY <1>2 DEF Stack
  <1>4. PICK f \in Files : f = goals[at]
    BY <1>1
  <1>5. PICK b : b = <<>>
    OBVIOUS
  <1>6. b \in Seq(Frame) /\ Len(b) = 0 /\ Chain(b) /\ Stacked(b) = Stacked(frames)
    BY <1>1, <1>5 DEF Chain, Stacked
  <1>7. {} \in SUBSET Files /\ UpdateFile(f, {}, b)
    BY <1>1, <1>3, <1>4, <1>5
  <1>8. /\ \A k \in 1 .. Len(b) :
              /\ b[k].file \in {} /\ Unmade(b[k].file)
              /\ b[k].file # f /\ b[k].file # Head1(f)
              /\ Level(Head1(f)) <= Level(b[k].file)
        /\ \A u \in {} : \E k \in 1 .. Len(b) : u = b[k].file \/ u = Asks(b[k])
    BY <1>6
  <1> QED
    BY <1>1, <1>5, <1>6, <1>7, <1>8, UpdateFileInv

-----------------------------------------------------------------------------
(* The innermost activation goes on with the next prerequisite.            *)
LEMMA ChainSame ==
    ASSUME NEW fs \in Seq(Frame), NEW gs \in Seq(Frame), Chain(fs), Len(gs) = Len(fs),
           UNCHANGED make,
           \A k \in 1 .. Len(fs) : gs[k].file = fs[k].file /\ Sees(gs[k])',
           \A k \in 2 .. Len(fs) : gs[k] = fs[k]
    PROVE  Chain(gs)'
  <1>1. \A f : Level(f)' = Level(f) /\ Head1(f)' = Head1(f)
    BY DEF Level, Head1
  <1>2. \A j, k \in 1 .. Len(gs) :
           j < k => gs[j].file # gs[k].file /\ Level(gs[j].file) <= Level(gs[k].file)
    BY DEF Chain
  <1>3. ASSUME NEW k \in 2 .. Len(gs)
        PROVE  /\ Head1(Asks(gs[k])) = gs[k - 1].file
               /\ \A j \in k .. Len(gs) : Asks(gs[k]) # gs[j].file
    <2>1. k - 1 \in 1 .. Len(fs) /\ \A j \in k .. Len(fs) : j \in 1 .. Len(fs)
      OBVIOUS
    <2>2. /\ Head1(Asks(fs[k])) = fs[k - 1].file
          /\ \A j \in k .. Len(fs) : Asks(fs[k]) # fs[j].file
      BY DEF Chain
    <2>3. gs[k] = fs[k] /\ gs[k - 1].file = fs[k - 1].file
      BY <2>1
    <2> QED
      BY <2>1, <2>2, <2>3
  <1> QED
    BY <1>1, <1>2, <1>3 DEF Chain, Asks, First, Before

LEMMA CheckedDepInv ==
    ASSUME Orderly, OrderInv, CheckedDep, TypeInv'
    PROVE  OrderInv'
  <1> DEFINE new   == Larger(Top.status, ret)
             run   == Top.running \/ commandState[Prereq] \in InProgress
             stop  == new # Success /\ ~make.keepGoing
             binds == ~OrderOnly(Current.edge)
             moved == binds /\ ~run /\ (lastMtime[Prereq] # Top.before \/ Top.before = Missing)
             X == [Top EXCEPT !.status = new, !.running = run,
                    !.must = @ \/ (binds /\ OutOfDate(Prereq, Top.mtime)),
                    !.changed = @ \/ moved,
                    !.left = IF stop THEN {} ELSE @ \ {Current}]
  <1>1. /\ pc = "back" /\ frames # <<>> /\ Top.left # {} /\ pc' = "walk"
        /\ frames' = <<X>> \o Tail(frames) /\ updating' = updating \ {Prereq}
        /\ UNCHANGED <<make, deps, commandState, updateStatus, updated, children, considered>>
    BY DEF CheckedDep, OrderInv, TypeInv, TypeOK, given, marks, procs
  <1>2. /\ Top \in Frame /\ Top = frames[1] /\ Sees(Top) /\ Prereq = Asks(Top)
        /\ Prereq \in Files /\ Current \in Edges(Top.file) /\ Current.edge = <<Owner, Prereq>>
        /\ Current \in Top.left
    BY <1>1, CurrentEdge
  <1>3. /\ frames \in Seq(Frame) /\ Chain(frames) /\ Stack /\ Considered /\ Returned
        /\ Grouped /\ DepsLeft /\ ret \in Statuses /\ Top.status \in Statuses
    BY <1>1, <1>2 DEF OrderInv, TypeInv, TypeOK, Stack, Frame
  <1>4. /\ Prereq \notin Stacked(frames)
        /\ \/ commandState[Prereq] \in InProgress /\ ret = Success
           \/ updated[Head1(Prereq)] /\ (ret = Success <=> Done(Head1(Prereq)))
    BY <1>1, <1>3 DEF Returned
  <1>5. ~HackEdge(Current.edge)
    BY <1>1, <1>4, PrereqIsNew
  <1>6. PICK x : x = X
    OBVIOUS
  <1>7. /\ x.file = Top.file /\ x.status = new /\ x.running = run
        /\ x.left = IF stop THEN {} ELSE Top.left \ {Current}
    BY <1>2, <1>6 DEF Frame
  <1>8. new \in Statuses /\ (new = Success <=> Top.status = Success /\ ret = Success)
    BY <1>3 DEF Larger, Statuses, Success, None, Failed
  <1> HIDE DEF X, new
  <1>9. Sees(x)
    <2>1. x.file \in Heads /\ x.left \subseteq Edges(x.file)
      BY <1>2, <1>7 DEF Sees
    <2>2. ASSUME NEW d \in Edges(x.file) \ x.left
          PROVE  HackEdge(d.edge) \/ Done(Head1(d.edge[2])) \/ x.running \/ x.status # Success
      <3>1. CASE d = Current
        <4>1. Head1(d.edge[2]) = Head1(Prereq)
          BY <3>1 DEF Prereq
        <4> QED
          BY <1>4, <1>7, <1>8, <4>1
      <3>2. CASE d # Current /\ ~stop
        <4>1. d \in Edges(Top.file) \ Top.left
          BY <1>7, <3>2
        <4>2. HackEdge(d.edge) \/ Done(Head1(d.edge[2])) \/ Top.running \/ Top.status # Success
          BY <1>2, <4>1 DEF Sees
        <4> QED
          BY <1>7, <1>8, <4>2
      <3>3. CASE stop
        BY <1>7, <3>3
      <3> QED
        BY <3>1, <3>2, <3>3
    <2>3. ASSUME x.status # Success
          PROVE  \E d \in Edges(x.file) : ~HackEdge(d.edge) /\ Broken(Head1(d.edge[2]))
      <3>1. CASE Top.status # Success
        BY <1>2, <1>7, <3>1 DEF Sees
      <3>2. CASE ret # Success
        <4>1. Broken(Head1(Prereq))
          BY <1>4, <3>2 DEF Broken, Done
        <4>2. Current.edge[2] = Prereq
          BY DEF Prereq
        <4> QED
          BY <1>2, <1>5, <1>7, <4>1, <4>2
      <3> QED
        BY <1>7, <1>8, <2>3, <3>1, <3>2
    <2> QED
      BY <2>1, <2>2, <2>3 DEF Sees
  <1>10. /\ frames' = <<x>> \o Tail(frames)
    BY <1>1, <1>6
  <1>11. x \in Frame
    <2>1. frames' \in Seq(Frame) /\ frames' # <<>> /\ Head(frames') = x
      <3>1. Tail(frames) \in Seq(Frame)
        BY <1>1, <1>3, PoppedFrame
      <3>2. Len(<<x>>) = 1 /\ <<x>>[1] = x
        OBVIOUS
      <3>3. frames' \in Seq(Frame)
        BY DEF TypeInv, TypeOK
      <3>4. Len(frames') # 0
        BY <1>10, <3>1
      <3>5. Head(frames') = x
        BY <1>10, <3>1
      <3> QED
        BY <3>3, <3>4, <3>5
    <2> QED
      BY <2>1, PoppedFrame
  <1>12. PICK b : b = <<x>> \o Tail(frames)
    OBVIOUS
  <1>13. /\ b \in Seq(Frame) /\ Len(b) = Len(frames) /\ b[1] = x /\ b # <<>> /\ frames' = b
         /\ \A k \in 2 .. Len(frames) : b[k] = frames[k]
    BY <1>1, <1>3, <1>10, <1>11, <1>12, ReplacedFrame
  <1>14. Chain(b)
    BY <1>1, <1>2, <1>3, <1>7, <1>9, <1>11, <1>12, ChainReplace
  <1>15. Kept /\ DepsType /\ make \in Makefiles
    BY <1>1 DEF Kept, OrderInv, TypeInv, TypeOK, DepsType
  <1>16. Chain(b)'
    BY <1>1, <1>13, <1>14, <1>15, ChainKept
  <1>17. ASSUME NEW k \in 1 .. Len(b) PROVE b[k].file = frames[k].file
    <2>1. CASE k = 1
      BY <1>2, <1>7, <1>13, <2>1
    <2>2. CASE k # 1
      <3>1. k \in 2 .. Len(frames)
        BY <1>13, <2>2
      <3> QED
        BY <1>13, <3>1
    <2> QED
      BY <2>1, <2>2
  <1>18. ASSUME NEW k \in 1 .. Len(b) PROVE b[k].file \in updating' /\ Unmade(b[k].file)
    <2>1. k \in 1 .. Len(frames) /\ Held(k)
      BY <1>1, <1>3, <1>13 DEF Stack
    <2>2. frames[k].file # Prereq
      BY <1>4, <2>1 DEF Stacked
    <2> QED
      BY <1>1, <1>17, <2>1, <2>2 DEF Held
  <1>19. ASSUME NEW u \in updating'
         PROVE  \E k \in 1 .. Len(b) : u = b[k].file \/ (k > 1 /\ u = Asks(b[k]))
    <2>1. PICK k \in 1 .. Len(frames) :
             u = frames[k].file \/ ((k > 1 \/ pc = "back") /\ u = Asks(frames[k]))
      BY <1>1, <1>3 DEF Stack
    <2>2. k \in 1 .. Len(b)
      BY <1>13
    <2>3. CASE u = frames[k].file
      BY <1>17, <2>2, <2>3
    <2>4. CASE u = Asks(frames[k])
      <3>1. k # 1
        BY <1>1, <1>2, <2>4
      <3>2. k \in 2 .. Len(frames) /\ k > 1
        BY <3>1
      <3>3. b[k] = frames[k]
        BY <1>13, <3>2
      <3> QED
        BY <2>2, <2>4, <3>2, <3>3
    <2> QED
      BY <2>1, <2>3, <2>4
  <1>20. Stack'
    <2>1. Chain(frames)'
      BY <1>13, <1>16
    <2>2. \A k \in 1 .. Len(frames') : Held(k)'
      BY <1>1, <1>13, <1>18 DEF Held, Unmade
    <2>3. \A u \in updating' :
             \E k \in 1 .. Len(frames') :
                u = frames'[k].file \/ ((k > 1 \/ pc' = "back") /\ u = Asks(frames'[k]))
      BY <1>13, <1>19
    <2>4. pc' \notin {"pass", "more", "goal", "new_job", "linear"}
      BY <1>1
    <2> QED
      BY <2>1, <2>2, <2>3, <2>4 DEF Stack, Asks, First, Before
  <1>21. Stacked(frames)' = Stacked(frames)
    BY <1>13, <1>17 DEF Stacked
  <1>22. Considered'
    BY <1>1, <1>3, <1>21 DEF Considered, Head1
  <1>23. Returned'
    BY <1>1 DEF Returned
  <1>24. Grouped' /\ DepsLeft'
    BY <1>1, <1>3 DEF Grouped, DepsLeft, Head1
  <1> QED
    BY <1>20, <1>22, <1>23, <1>24 DEF OrderInv

-----------------------------------------------------------------------------
(* A circular prerequisite is dropped.                                     *)
LEMMA InEdges ==
    ASSUME NEW h, NEW d
    PROVE  /\ d \in Edges(h) <=>
                \E i \in DOMAIN make.group[h] : \E j \in DOMAIN deps[make.group[h][i]] :
                   d = [nth |-> <<i, j>>,
                        edge |-> <<make.group[h][i], deps[make.group[h][i]][j]>>]
           /\ d \in Edges(h)' <=>
                \E i \in DOMAIN make'.group[h] : \E j \in DOMAIN deps'[make'.group[h][i]] :
                   d = [nth |-> <<i, j>>,
                        edge |-> <<make'.group[h][i], deps'[make'.group[h][i]][j]>>]
  BY DEF Edges

LEMMA EdgesDropped ==
    ASSUME OrderInv, pc = "walk", frames # <<>>, Top.left # {}, UNCHANGED make,
           deps' = [deps EXCEPT ![Owner] = Restrict(@, DOMAIN @ \ {Current.nth[2]})],
           NEW h \in Heads
    PROVE  Edges(h)' = Edges(h) \ {Current}
  <1>1. /\ Top.file \in Heads /\ Top.file \in Files
        /\ Current \in Edges(Top.file) /\ Current \in Dep
        /\ Current.edge = <<Owner, Prereq>>
        /\ Owner \in Files /\ Prereq \in Files /\ Head1(Owner) = Top.file
    BY CurrentEdge
  <1>2. make \in Makefiles /\ DepsType /\ h \in Files /\ Head1(h) = h
    BY DEF OrderInv, TypeInv, TypeOK, DepsType, Heads
  <1>3. PICK J : J = Current.nth[2]
    OBVIOUS
  <1>4. /\ deps' = [deps EXCEPT ![Owner] = Restrict(@, DOMAIN @ \ {J})]
        /\ \A f \in Files : f # Owner => deps'[f] = deps[f]
        /\ DOMAIN deps'[Owner] = DOMAIN deps[Owner] \ {J}
        /\ \A j \in DOMAIN deps[Owner] \ {J} : deps'[Owner][j] = deps[Owner][j]
    BY <1>1, <1>2, <1>3 DEF DepsType, Restrict
  <1>5. PICK I \in DOMAIN make.group[Top.file] : \E j \in DOMAIN deps[make.group[Top.file][I]] :
           Current = [nth |-> <<I, j>>,
                      edge |-> <<make.group[Top.file][I], deps[make.group[Top.file][I]][j]>>]
    BY <1>1, InEdges
  <1>6. /\ Current.edge[1] = make.group[Top.file][I] /\ J \in DOMAIN deps[Owner]
        /\ Owner = make.group[Top.file][I]
        /\ Current = [nth |-> <<I, J>>, edge |-> <<Owner, deps[Owner][J]>>]
    BY <1>3, <1>5 DEF Owner
  <1>7. IsInjective(make.group[Top.file])
    BY <1>1, <1>2, RemakeAssumption
  <1>8. \A i \in DOMAIN make.group[h] : make.group[h][i] \in Files /\ Head1(make.group[h][i]) = h
    <2>1. ASSUME NEW i \in DOMAIN make.group[h]
          PROVE  make.group[h][i] \in Files /\ Head1(make.group[h][i]) = h
      <3>1. make.group[h][i] \in Group(h)
        BY DEF Group, Range
      <3>2. Group(h) \subseteq Files
        BY <1>2, GroupType
      <3> QED
        BY <1>2, <3>1, <3>2, HeadOfGroup
    <2> QED
      BY <2>1
  <1>9. ASSUME NEW d \in Edges(h)' PROVE d \in Edges(h) /\ d # Current
    <2>1. PICK i \in DOMAIN make.group[h] : \E j \in DOMAIN deps'[make.group[h][i]] :
             d = [nth |-> <<i, j>>, edge |-> <<make.group[h][i], deps'[make.group[h][i]][j]>>]
      <3>1. \E i \in DOMAIN make'.group[h] : \E j \in DOMAIN deps'[make'.group[h][i]] :
               d = [nth |-> <<i, j>>,
                    edge |-> <<make'.group[h][i], deps'[make'.group[h][i]][j]>>]
        BY ONLY <1>9, InEdges
      <3>2. make' = make
        OBVIOUS
      <3> QED
        BY <3>1, <3>2
    <2>2. PICK j \in DOMAIN deps'[make.group[h][i]] :
             d = [nth |-> <<i, j>>, edge |-> <<make.group[h][i], deps'[make.group[h][i]][j]>>]
      BY <2>1
    <2>3. CASE make.group[h][i] # Owner
      <3>1. deps'[make.group[h][i]] = deps[make.group[h][i]]
        BY <1>4, <1>8, <2>3
      <3>2. d # Current
        BY <1>1, <2>2, <2>3
      <3>3. d = [nth |-> <<i, j>>, edge |-> <<make.group[h][i], deps[make.group[h][i]][j]>>]
            /\ j \in DOMAIN deps[make.group[h][i]]
        BY <2>2, <3>1
      <3>4. d \in Edges(h)
        BY ONLY <3>3, InEdges
      <3> QED
        BY <3>2, <3>4
    <2>4. CASE make.group[h][i] = Owner
      <3>1. j \in DOMAIN deps[make.group[h][i]] /\ j # J
            /\ deps'[make.group[h][i]][j] = deps[make.group[h][i]][j]
        BY <1>4, <2>2, <2>4
      <3>2. d.nth[2] # J
        BY <2>2, <3>1
      <3> QED
        BY <1>3, <2>2, <3>1, <3>2, InEdges
    <2> QED
      BY <2>3, <2>4
  <1>10. ASSUME NEW d \in Edges(h), d # Current PROVE d \in Edges(h)'
    <2>1. PICK i \in DOMAIN make.group[h] : \E j \in DOMAIN deps[make.group[h][i]] :
             d = [nth |-> <<i, j>>, edge |-> <<make.group[h][i], deps[make.group[h][i]][j]>>]
      BY InEdges
    <2>2. PICK j \in DOMAIN deps[make.group[h][i]] :
             d = [nth |-> <<i, j>>, edge |-> <<make.group[h][i], deps[make.group[h][i]][j]>>]
      BY <2>1
    <2>3. CASE make.group[h][i] # Owner
      <3>1. deps'[make.group[h][i]] = deps[make.group[h][i]]
        BY <1>4, <1>8, <2>3
      <3>2. d = [nth |-> <<i, j>>, edge |-> <<make'.group[h][i], deps'[make'.group[h][i]][j]>>]
        BY <2>2, <3>1
      <3>3. i \in DOMAIN make'.group[h] /\ j \in DOMAIN deps'[make'.group[h][i]]
        BY <2>2, <3>1
      <3> QED
        BY ONLY <3>2, <3>3, InEdges
    <2>4. CASE make.group[h][i] = Owner
      <3>1. h = Top.file
        BY <1>1, <1>8, <2>4
      <3>2. i = I
        BY <1>6, <1>7, <2>4, <3>1 DEF IsInjective
      <3>3. j # J
        BY <1>6, <1>10, <2>2, <2>4, <3>2
      <3>4. j \in DOMAIN deps'[make.group[h][i]]
            /\ deps'[make.group[h][i]][j] = deps[make.group[h][i]][j]
        BY <1>4, <2>2, <2>4, <3>3
      <3>5. d = [nth |-> <<i, j>>, edge |-> <<make'.group[h][i], deps'[make'.group[h][i]][j]>>]
        BY <2>2, <3>4
      <3>6. i \in DOMAIN make'.group[h] /\ j \in DOMAIN deps'[make'.group[h][i]]
        BY <3>4
      <3> QED
        BY ONLY <3>5, <3>6, InEdges
    <2> QED
      BY <2>3, <2>4
  <1> QED
    BY <1>9, <1>10

LEMMA CircularDroppedInv ==
    ASSUME OrderInv, CircularDropped, TypeInv'
    PROVE  OrderInv'
  <1> DEFINE X == [Top EXCEPT !.left = @ \ {Current}]
  <1>1. /\ pc = "walk" /\ pc' = "walk" /\ frames # <<>> /\ Top.left # {} /\ Prereq \in updating
        /\ frames' = <<X>> \o Tail(frames)
        /\ deps' = IF HackEdge(Current.edge) THEN deps
                   ELSE [deps EXCEPT ![Owner] = Restrict(@, DOMAIN @ \ {Current.nth[2]})]
        /\ UNCHANGED <<make, commandState, updateStatus, updated, children, considered, updating>>
    BY DEF CircularDropped, NextPrereq, AtPrereq, OrderInv, TypeInv, TypeOK, given, marks, procs
  <1>2. /\ Top \in Frame /\ Top = frames[1] /\ Sees(Top) /\ Prereq = Asks(Top)
        /\ Prereq \in Files /\ Current \in Edges(Top.file) /\ Current \in Dep
        /\ Current.edge = <<Owner, Prereq>> /\ Owner \in Files
        /\ Current \in Top.left /\ Head1(Owner) = Top.file /\ Top.file \in Heads
    BY <1>1, CurrentEdge
  <1>3. /\ frames \in Seq(Frame) /\ Chain(frames) /\ Stack /\ Considered
        /\ Grouped /\ DepsLeft /\ make \in Makefiles /\ DepsType
    BY <1>1 DEF OrderInv, TypeInv, TypeOK, Stack, DepsType
  <1>4. ASSUME NEW k \in 1 .. Len(frames)
        PROVE  /\ frames[k].file \in updating /\ Unmade(frames[k].file) /\ Sees(frames[k])
               /\ frames[k].file \in Heads /\ frames[k].file \in Files
               /\ Head1(frames[k].file) = frames[k].file
    BY <1>1, <1>3 DEF Stack, Held, Chain, Sees, Heads
  <1>5. PICK x : x = X
    OBVIOUS
  <1>6. x \in Frame /\ x.file = Top.file /\ x.left = Top.left \ {Current}
        /\ x.status = Top.status /\ x.running = Top.running
    BY <1>2, <1>5 DEF Frame
  <1>7. frames' = <<x>> \o Tail(frames)
    BY <1>1, <1>5
  <1> HIDE DEF X
  <1>8. PICK b : b = <<x>> \o Tail(frames)
    OBVIOUS
  <1>9. /\ b \in Seq(Frame) /\ Len(b) = Len(frames) /\ b[1] = x /\ b # <<>> /\ frames' = b
        /\ \A k \in 2 .. Len(frames) : b[k] = frames[k]
    BY <1>1, <1>3, <1>6, <1>7, <1>8, ReplacedFrame
  <1>10. ASSUME NEW k \in 1 .. Len(b)
         PROVE  k \in 1 .. Len(frames) /\ b[k].file = frames[k].file /\ (k # 1 => b[k] = frames[k])
    <2>1. CASE k = 1
      BY <1>2, <1>6, <1>9, <2>1
    <2>2. CASE k # 1
      <3>1. k \in 2 .. Len(frames)
        BY <1>9, <2>2
      <3> QED
        BY <1>9, <3>1
    <2> QED
      BY <2>1, <2>2
  (* The head of a prerequisite that is being considered is not made.      *)
  <1>11. ~updated[Head1(Prereq)]
    <2>1. PICK k \in 1 .. Len(frames) :
             Prereq = frames[k].file \/ (k > 1 /\ Prereq = Asks(frames[k]))
      BY <1>1, <1>3 DEF Stack
    <2>2. CASE Prereq = frames[k].file
      BY <1>4, <2>2 DEF Unmade
    <2>3. CASE k > 1 /\ Prereq = Asks(frames[k])
      <3>1. k \in 2 .. Len(frames) /\ k - 1 \in 1 .. Len(frames)
        BY <2>3
      <3>2. Head1(Prereq) = frames[k - 1].file
        BY <1>3, <2>3, <3>1 DEF Chain
      <3> QED
        BY <1>4, <3>1, <3>2 DEF Unmade
    <2> QED
      BY <2>1, <2>2, <2>3
  <1>12. ASSUME NEW h \in Heads
         PROVE  Edges(h)' = IF HackEdge(Current.edge) THEN Edges(h) ELSE Edges(h) \ {Current}
    <2>1. CASE HackEdge(Current.edge)
      BY <1>1, <2>1 DEF Edges
    <2>2. CASE ~HackEdge(Current.edge)
      BY <1>1, <2>2, EdgesDropped
    <2> QED
      BY <2>1, <2>2
  <1>13. ASSUME NEW h \in Heads, h # Top.file PROVE Current \notin Edges(h)
    <2>1. \A d \in Edges(h) : Head1(d.edge[1]) = h
      BY <1>3, EdgesOfGroup
    <2> QED
      BY <1>2, <1>13, <2>1 DEF Owner
  <1>14. Heads' = Heads /\ \A f : Head1(f)' = Head1(f)
    BY <1>1 DEF Heads, Head1
  <1>15. \A e : HackEdge(e)' = HackEdge(e)
    BY <1>1, <1>14 DEF HackEdge
  <1>16. \A f : Done(f)' = Done(f) /\ Broken(f)' = Broken(f) /\ Unmade(f)' = Unmade(f)
    BY <1>1 DEF Done, Broken, Unmade
  <1>17. Sees(x)'
    <2>1. x.file \in Heads /\ x.left \subseteq Edges(x.file)'
      BY <1>2, <1>6, <1>12 DEF Sees
    <2>2. ASSUME NEW d \in Edges(x.file)' \ x.left
          PROVE  HackEdge(d.edge) \/ Done(Head1(d.edge[2])) \/ x.running \/ x.status # Success
      <3>1. CASE d = Current
        BY <1>2, <1>6, <1>12, <3>1
      <3>2. CASE d # Current
        <4>1. d \in Edges(Top.file) \ Top.left
          BY <1>2, <1>6, <1>12, <3>2
        <4> QED
          BY <1>2, <1>6, <4>1 DEF Sees
      <3> QED
        BY <3>1, <3>2
    <2>3. ASSUME x.status # Success
          PROVE  \E d \in Edges(x.file)' : ~HackEdge(d.edge) /\ Broken(Head1(d.edge[2]))
      <3>1. PICK d \in Edges(Top.file) : ~HackEdge(d.edge) /\ Broken(Head1(d.edge[2]))
        BY <1>2, <1>6, <2>3 DEF Sees
      <3>2. d # Current
        BY <1>11, <3>1 DEF Broken, Prereq
      <3> QED
        BY <1>2, <1>6, <1>12, <3>1, <3>2
    <2> QED
      BY <1>14, <1>15, <1>16, <2>1, <2>2, <2>3 DEF Sees
  <1>18. ASSUME NEW k \in 1 .. Len(b) PROVE Sees(b[k])'
    <2>1. CASE k = 1
      BY <1>9, <1>17, <2>1
    <2>2. CASE k # 1
      <3>1. b[k] = frames[k] /\ k \in 1 .. Len(frames)
        BY <1>10, <2>2
      <3>2. Sees(b[k]) /\ b[k].file \in Heads
        BY <1>4, <3>1
      <3>3. b[k].file # Top.file
        <4>1. 1 \in 1 .. Len(frames) /\ 1 < k
          BY <1>9, <2>2
        <4> QED
          BY <1>2, <1>3, <3>1, <4>1 DEF Chain
      <3>4. Edges(b[k].file)' = Edges(b[k].file)
        BY <1>12, <1>13, <3>2, <3>3
      <3> QED
        BY <1>14, <1>15, <1>16, <3>2, <3>4 DEF Sees
    <2> QED
      BY <2>1, <2>2
  <1>19. Chain(b)'
    <2>1. \A k \in 1 .. Len(frames) : b[k].file = frames[k].file /\ Sees(b[k])'
      BY <1>9, <1>10, <1>18
    <2>2. PICK fs \in Seq(Frame) : fs = frames
      BY <1>3
    <2> QED
      BY <1>1, <1>3, <1>9, <2>1, <2>2, ChainSame
  <1>20. Stack'
    <2>1. Chain(frames)'
      BY <1>9, <1>19
    <2>2. \A k \in 1 .. Len(frames') : Held(k)'
      BY <1>1, <1>4, <1>9, <1>10, <1>16 DEF Held
    <2>3. ASSUME NEW u \in updating'
          PROVE  \E k \in 1 .. Len(frames') :
                    u = frames'[k].file \/ ((k > 1 \/ pc' = "back") /\ u = Asks(frames'[k]))
      <3>1. PICK k \in 1 .. Len(frames) : u = frames[k].file \/ (k > 1 /\ u = Asks(frames[k]))
        BY <1>1, <1>3 DEF Stack
      <3>2. k \in 1 .. Len(b) /\ b[k].file = frames[k].file /\ (k > 1 => b[k] = frames[k])
        BY <1>9, <1>10
      <3> QED
        BY <1>9, <3>1, <3>2
    <2>4. pc' \notin {"pass", "more", "goal", "new_job", "linear"}
      BY <1>1
    <2> QED
      BY <2>1, <2>2, <2>3, <2>4 DEF Stack, Asks, First, Before
  <1>21. Stacked(frames)' = Stacked(frames)
    BY <1>9, <1>10 DEF Stacked
  <1>22. Considered'
    BY <1>1, <1>3, <1>14, <1>21 DEF Considered
  <1>23. Returned'
    BY <1>1 DEF Returned
  <1>24. Grouped'
    BY <1>1, <1>3, <1>14 DEF Grouped
  <1>25. DepsLeft'
    <2> SUFFICES ASSUME NEW f \in Files PROVE Range(deps'[f]) \subseteq Range(deps[f])
      BY <1>1, <1>3 DEF DepsLeft
    <2>1. CASE HackEdge(Current.edge) \/ f # Owner
      BY <1>1, <1>3, <2>1 DEF DepsType
    <2>2. CASE ~HackEdge(Current.edge) /\ f = Owner
      <3>1. deps'[f] = Restrict(deps[f], DOMAIN deps[f] \ {Current.nth[2]})
        BY <1>1, <1>3, <2>2 DEF DepsType
      <3> QED
        BY <3>1 DEF Range, Restrict
    <2> QED
      BY <2>1, <2>2
  <1> QED
    BY <1>20, <1>22, <1>23, <1>24, <1>25 DEF OrderInv

-----------------------------------------------------------------------------
(* An activation comes to its decision.                                    *)
LEMMA AtDecision ==
    ASSUME OrderInv, NEW f,
           \/ Decide(f)
           \/ pc \in {"new_job", "linear"} /\ f = Top.file
    PROVE  /\ f \in Heads /\ f \in Files /\ Head1(f) = f /\ Top = frames[1] /\ Top \in Frame
           /\ frames # <<>> /\ 1 \in 1 .. Len(frames) /\ Sees(Top) /\ f = Top.file /\ Top.left = {}
           /\ pc # "linear" => Unmade(f) /\ children[f] = 0
           /\ \A d \in Edges(f) :
                 HackEdge(d.edge) \/ Done(Head1(d.edge[2])) \/ Top.running \/ Top.status # Success
           /\ Top.status # Success =>
                 \E d \in Edges(f) : ~HackEdge(d.edge) /\ Broken(Head1(d.edge[2]))
  <1>1. /\ TypeInv /\ TypeOK /\ Stack /\ Chain(frames) /\ Grouped /\ frames \in Seq(Frame)
        /\ frames # <<>> /\ Top.left = {} /\ f = Top.file
        /\ pc \in {"walk", "new_job", "linear"}
    BY DEF OrderInv, TypeInv, TypeOK, Stack, Decide
  <1>2. Top = frames[1] /\ Top \in Frame /\ 1 \in 1 .. Len(frames)
    BY <1>1, PoppedFrame DEF Top
  <1>3. Sees(Top)
    BY <1>1, <1>2 DEF Chain
  <1>4. f \in Heads /\ f \in Files /\ Head1(f) = f
    BY <1>1, <1>3 DEF Sees, Heads
  <1>5. pc # "linear" => Unmade(f)
    <2>1. CASE pc = "walk"
      BY <1>1, <1>2, <2>1 DEF Stack, Held
    <2>2. CASE pc = "new_job"
      BY <1>1, <2>2 DEF Stack
    <2> QED
      BY <1>1, <2>1, <2>2
  <1>6. pc # "linear" => children[f] = 0
    BY <1>1, <1>4, <1>5 DEF Grouped, Unmade
  <1> QED
    BY <1>1, <1>2, <1>3, <1>4, <1>5, <1>6 DEF Sees

(* Nothing else was made meanwhile: the marks of the other groups.         *)
OthersSame(f) ==
    \A g \in Files : Head1(g) # f =>
        updated'[g] = updated[g] /\ commandState'[g] = commandState[g]

LEMMA SettledMarks ==
    ASSUME OrderInv, NEW f, Decide(f), UNCHANGED <<make, children>>,
           NEW s \in Statuses, NEW ran \in BOOLEAN, NEW newDisk, NoticeFinished(f, s, ran, newDisk),
           Group(f) = {f} \/ ran \/ s # Success, ran => s # None
    PROVE  /\ Grouped' /\ Kept /\ OthersSame(f)
           /\ updated'[f] /\ updateStatus'[f] = (IF s = None THEN Success ELSE s)
           /\ \A g \in Files : Head1(g) = f => updated'[g]
           /\ \A g \in Files : Head1(g) # f => updateStatus'[g] = updateStatus[g]
  <1>1. f \in Heads /\ f \in Files /\ Unmade(f) /\ children[f] = 0
    BY AtDecision DEF Decide
  <1>2. /\ make \in Makefiles /\ MarksType /\ Grouped /\ children \in [Files -> Nat]
    BY DEF OrderInv, TypeInv, TypeOK, MarksType
  <1>3. children' = [children EXCEPT ![f] = 0] /\ ~updated[f] /\ make' = make
    <2>1. children' = children /\ children = [children EXCEPT ![f] = 0]
      BY <1>1, <1>2
    <2> QED
      BY <1>1, <2>1 DEF Unmade
  <1>4. Settles(f, IF s = None THEN Success ELSE s) /\ Grouped'
    BY <1>1, <1>2, <1>3, NoticeFinishedMarks
  <1>5. ASSUME NEW g \in Files, updated[g]
        PROVE  updated'[g] /\ updateStatus'[g] = updateStatus[g]
    <2>1. Head1(g) # f
      BY <1>2, <1>3, <1>5 DEF Grouped
    <2> QED
      BY <1>4, <1>5, <2>1 DEF Settles
  <1> QED
    BY <1>4, <1>5 DEF Kept, OthersSame, Settles

LEMMA SettledInv ==
    ASSUME OrderInv, NEW f, Decide(f), UNCHANGED <<make, deps, children, considered>>, TypeInv',
           NEW s \in Statuses, NEW ran \in BOOLEAN, NEW newDisk, NoticeFinished(f, s, ran, newDisk),
           Group(f) = {f} \/ ran \/ s # Success, ran => s # None,
           NEW value, Return(value), value = Success <=> s \in {Success, None}
    PROVE  OrderInv'
  <1>1. /\ f \in Files /\ f = Top.file /\ frames # <<>> /\ pc = "walk"
        /\ updating' = updating \ {Top.file}
    BY AtDecision DEF Decide
  <1>2. /\ Grouped' /\ Kept /\ OthersSame(f)
        /\ updated'[f] /\ updateStatus'[f] = (IF s = None THEN Success ELSE s)
        /\ \A g \in Files : Head1(g) = f => updated'[g]
    BY SettledMarks
  <1>3. ret' = value /\ pc' = "back" /\ frames' = Tail(frames)
    BY DEF Return
  <1>4. ret' = Success <=> updateStatus'[f] = Success
    BY <1>2, <1>3 DEF Statuses, Success, None, Failed
  <1> QED
    BY <1>1, <1>2, <1>3, <1>4, PopInv DEF OthersSame

(* set_command_state() for a group that is not settled.                    *)
LEMMA StateMarks ==
    ASSUME OrderInv, NEW f \in Heads, Unmade(f), UNCHANGED <<make, updated, updateStatus>>,
           NEW s \in {"not_started", "deps_running", "running"},
           commandState' = StateOfGroup(f, s),
           children' = [children EXCEPT ![f] = IF s = "running" THEN 1 ELSE 0]
    PROVE  /\ Grouped' /\ Kept /\ OthersSame(f)
           /\ \A g \in Files : Head1(g) = f => commandState'[g] = s
  <1>1. make \in Makefiles /\ Grouped /\ children \in [Files -> Nat]
    BY DEF OrderInv, TypeInv, TypeOK
  <1>2. f \in Files /\ Head1(f) = f
    BY DEF Heads
  <1>3. \A g \in Files : g \in Group(f) <=> Head1(g) = f
    BY <1>1, <1>2, HeadOfGroup
  <1>4. \A g \in Files : commandState'[g] = IF Head1(g) = f THEN s ELSE commandState[g]
    BY <1>3 DEF StateOfGroup
  <1>5. \A g \in Files : Head1(g) \in Files /\ Head1(Head1(g)) = Head1(g)
    BY <1>1, HeadOfGroup
  <1>6. \A g : Head1(g)' = Head1(g)
    BY DEF Head1
  <1>7. ASSUME NEW g \in Files
        PROVE  /\ commandState'[g] = commandState'[Head1(g)]
               /\ updated'[g] <=> commandState'[g] = "finished"
               /\ children'[g] = IF g = Head1(g) /\ commandState'[g] = "running" THEN 1 ELSE 0
    <2>1. commandState'[g] = commandState'[Head1(g)]
      BY <1>1, <1>4, <1>5 DEF Grouped
    <2>2. updated'[g] <=> commandState'[g] = "finished"
      BY <1>1, <1>4 DEF Grouped, Unmade
    <2>3. children'[g] = IF g = Head1(g) /\ commandState'[g] = "running" THEN 1 ELSE 0
      <3>1. CASE g = f
        BY <1>1, <1>2, <1>4, <3>1
      <3>2. CASE g # f
        BY <1>1, <1>4, <3>2 DEF Grouped
      <3> QED
        BY <3>1, <3>2
    <2> QED
      BY <2>1, <2>2, <2>3
  <1>8. Grouped'
    BY <1>1, <1>6, <1>7 DEF Grouped
  <1> QED
    BY <1>4, <1>8 DEF Kept, OthersSame

(* The innermost activation waits for new_job().                           *)
LEMMA HeldBackInv ==
    ASSUME OrderInv, TypeInv', pc \in {"walk", "new_job"}, frames # <<>>, NEW f, f = Top.file,
           Top.left = {}, ~Top.running, Top.status = Success,
           Grouped', Kept, OthersSame(f), UNCHANGED <<deps, considered, frames>>,
           updating' = updating \ {f}, pc' \in {"new_job", "linear"},
           pc' = "new_job" => Unmade(f)'
    PROVE  OrderInv'
  <1>1. /\ TypeInv /\ DepsLeft /\ Stack /\ Considered /\ make \in Makefiles
        /\ DepsType /\ frames \in Seq(Frame) /\ Chain(frames) /\ make' = make
    BY DEF OrderInv, TypeInv, TypeOK, DepsType, Stack, Kept
  <1>2. Top = frames[1] /\ 1 \in 1 .. Len(frames)
    BY <1>1, PoppedFrame DEF Top
  <1>3. Chain(frames)'
    <2>1. PICK fs : fs = frames
      OBVIOUS
    <2>2. Chain(fs)'
      BY <1>1, <2>1, ChainKept
    <2> QED
      BY <2>1, <2>2
  <1>4. ASSUME NEW k \in 1 .. Len(frames), k > 1
        PROVE  frames[k].file \in updating' /\ Unmade(frames[k].file)'
    <2>1. Held(k) /\ Sees(frames[k]) /\ frames[k] \in Frame
      BY <1>1, <1>4 DEF Stack, Chain
    <2>2. frames[k].file \in Files /\ Head1(frames[k].file) = frames[k].file
      BY <2>1 DEF Sees, Heads
    <2>3. frames[k].file # f
      BY <1>1, <1>2, <1>4 DEF Chain
    <2> QED
      BY <2>1, <2>2, <2>3 DEF Held, OthersSame, Unmade
  <1>5. Stack'
    <2>1. \A k \in 1 .. Len(frames') : k > 1 => Held(k)'
      BY <1>4 DEF Held
    <2>2. ASSUME NEW u \in updating'
          PROVE  \E k \in 1 .. Len(frames') :
                    u = frames'[k].file \/ ((k > 1 \/ pc' = "back") /\ u = Asks(frames'[k]))
      <3>1. PICK k \in 1 .. Len(frames) : u = frames[k].file \/ (k > 1 /\ u = Asks(frames[k]))
        BY <1>1 DEF Stack
      <3> QED
        BY <3>1
    <2>3. pc' \notin {"walk", "back", "pass", "more", "goal"}
      OBVIOUS
    <2>4. Top' = Top /\ f \notin updating'
      BY DEF Top
    <2>5. pc' = "new_job" => Unmade(Top.file)'
      BY <2>4
    <2> QED
      BY <1>3, <2>1, <2>2, <2>3, <2>4, <2>5 DEF Stack, Asks, First, Before
  <1>6. Considered'
    <2> SUFFICES ASSUME NEW g \in considered'
                 PROVE  \/ updated'[g] \/ commandState'[g] \in InProgress
                        \/ Head1(g)' \in Stacked(frames)'
      BY DEF Considered
    <2>1. g \in Files /\ (updated[g] \/ commandState[g] \in InProgress \/ Head1(g) \in Stacked(frames))
      BY <1>1 DEF Considered, TypeInv, TypeOK
    <2>2. Head1(g)' = Head1(g) /\ Stacked(frames)' = Stacked(frames)
      BY <1>1 DEF Head1, Stacked
    <2>3. CASE Head1(g) = f
      BY <1>2, <2>2, <2>3 DEF Stacked
    <2>4. CASE Head1(g) # f
      BY <2>1, <2>2, <2>4 DEF OthersSame
    <2> QED
      BY <2>3, <2>4
  <1>7. Returned'
    BY DEF Returned
  <1>8. DepsLeft'
    BY <1>1 DEF DepsLeft
  <1> QED
    BY <1>5, <1>6, <1>7, <1>8 DEF OrderInv

(* Nothing is walked.                                                      *)
LEMMA IdleInv ==
    ASSUME OrderInv, TypeInv', UNCHANGED <<make, deps, marks, children, frames, updating>>,
           considered' \subseteq considered, pc' \in {"pass", "goal", "die", "exit"},
           pc' \in {"pass", "goal"} => frames = <<>> /\ pc \notin {"die", "exit"}
    PROVE  OrderInv'
  <1>1. /\ Grouped /\ DepsLeft /\ make \in Makefiles /\ DepsType
        /\ UNCHANGED <<commandState, updateStatus, updated>>
    BY DEF OrderInv, TypeInv, TypeOK, DepsType, marks
  <1>2. \A f : Head1(f)' = Head1(f)
    BY DEF Head1
  <1>3. Grouped' /\ DepsLeft'
    BY <1>1, <1>2 DEF Grouped, DepsLeft
  <1>4. CASE pc' \in {"die", "exit"}
    BY <1>3, <1>4 DEF OrderInv
  <1>5. CASE pc' \in {"pass", "goal"}
    <2>1. frames = <<>> /\ Stack /\ Considered /\ Len(frames) = 0
      BY <1>5 DEF OrderInv
    <2>2. Chain(frames)'
      BY <2>1 DEF Chain
    <2>3. Stack'
      BY <1>5, <2>1, <2>2 DEF Stack
    <2>4. Considered'
      BY <1>1, <1>2, <2>1 DEF Considered, Stacked
    <2>5. Returned'
      BY <2>1 DEF Returned
    <2> QED
      BY <1>3, <2>3, <2>4, <2>5 DEF OrderInv
  <1> QED
    BY <1>4, <1>5

(* The decisions.                                                          *)
LEMMA SettleInv ==
    ASSUME Orderly, OrderInv, TypeInv', NEW f \in Files,
           GiveUp(f) \/ NoNeedToRemake(f) \/ RunEmptyRecipe(f)
    PROVE  OrderInv'
  <1>1. CASE GiveUp(f)
    <2>1. Decide(f) /\ Top.status # Success /\ UNCHANGED <<make, deps, children, considered>>
      BY <1>1 DEF GiveUp, given, procs
    <2>2. Top \in Frame
      BY <2>1, AtDecision
    <2>3. PICK s : s = IF Top.status = None THEN Failed ELSE Top.status
      OBVIOUS
    <2>4. s \in Statuses /\ s \notin {Success, None}
      BY <2>1, <2>2, <2>3 DEF Frame, Statuses, Success, None, Failed
    <2>5. NoticeFinished(f, s, FALSE, disk)
      BY <1>1, <2>3 DEF GiveUp
    <2>6. PICK value : value = Top.status
      OBVIOUS
    <2>7. Return(value)
      BY <1>1, <2>6 DEF GiveUp
    <2>8. s # Success /\ (value = Success <=> s \in {Success, None})
      BY <2>1, <2>4, <2>6
    <2> QED
      BY <2>1, <2>4, <2>5, <2>7, <2>8, SettledInv
  <1>2. CASE NoNeedToRemake(f)
    <2>1. Decide(f) /\ UNCHANGED <<make, deps, children, considered>>
      BY <1>2 DEF NoNeedToRemake, Decided, given, procs
    <2>2. updateStatus[f] = None
      <3>1. ~updated[f] /\ Grouped
        BY <2>1, AtDecision DEF Unmade, OrderInv, Decide
      <3> QED
        BY <3>1 DEF Grouped
    <2>3. NoticeFinished(f, None, FALSE, disk) /\ Return(Success)
      BY <1>2, <2>2 DEF NoNeedToRemake
    <2>4. None \in Statuses /\ None # Success
      BY DEF Statuses, Success, None
    <2> QED
      BY <2>1, <2>3, <2>4, SettledInv
  <1>3. CASE RunEmptyRecipe(f)
    <2>1. Decide(f) /\ UNCHANGED <<make, deps, children, considered>>
      BY <1>3 DEF RunEmptyRecipe, Decided, given, procs
    <2>2. NoticeFinished(f, Success, TRUE, disk) /\ Return(Success)
      BY <1>3 DEF RunEmptyRecipe
    <2>3. Success \in Statuses /\ None # Success
      BY DEF Statuses, Success, None
    <2> QED
      BY <2>1, <2>2, <2>3, SettledInv
  <1> QED
    BY <1>1, <1>2, <1>3

(* A rule without a recipe updates one file, so that all members of its    *)
(* group have the status of the head.                                      *)
LEMMA SingleWithoutRecipe ==
    ASSUME Orderly, make \in Makefiles, NEW f \in Files, Head1(f) = f, make.cmds[f] = "none"
    PROVE  Group(f) = {f}
  BY DEF Orderly, Group, Head1

LEMMA WithoutRecipeInv ==
    ASSUME Orderly, OrderInv, TypeInv', NEW f \in Files, RemakeWithoutRecipe(f)
    PROVE  OrderInv'
  <1>1. /\ Decide(f) /\ UNCHANGED <<make, deps, children, considered>>
        /\ make.cmds[f] = "none" /\ make \in Makefiles
    BY DEF RemakeWithoutRecipe, Decided, given, OrderInv, TypeInv, TypeOK
  <1>2. Group(f) = {f}
    BY <1>1, AtDecision, SingleWithoutRecipe
  <1>3. Success \in Statuses /\ Failed \in Statuses /\ None # Success /\ Failed # Success /\ Failed # None
    BY DEF Statuses, Success, None, Failed
  <1>4. CASE NoticeFinished(f, Success, FALSE, disk) /\ Return(Success)
    BY <1>1, <1>2, <1>3, <1>4, SettledInv
  <1>5. CASE NoticeFinished(f, Failed, FALSE, disk) /\ Return(Failed)
    BY <1>1, <1>2, <1>3, <1>5, SettledInv
  <1>6. CASE NoticeFinished(f, Failed, FALSE, disk) /\ pc' = "die"
    <2>1. Grouped'
      BY <1>1, <1>2, <1>3, <1>6, SettledMarks
    <2>2. DepsLeft'
      BY <1>1 DEF OrderInv, DepsLeft
    <2> QED
      BY <1>6, <2>1, <2>2 DEF OrderInv
  <1> QED
    BY <1>4, <1>5, <1>6 DEF RemakeWithoutRecipe

LEMMA PrereqsRunningInv ==
    ASSUME OrderInv, TypeInv', NEW f \in Files, PrereqsRunning(f)
    PROVE  OrderInv'
  <1>1. /\ Decide(f) /\ UNCHANGED <<make, deps, considered, children, updateStatus, updated>>
        /\ commandState' = StateOfGroup(f, "deps_running")
        /\ ret' = Success /\ pc' = "back" /\ frames' = Tail(frames)
        /\ updating' = updating \ {f} /\ pc = "walk"
    BY DEF PrereqsRunning, Decide, Return, given, procs
  <1>2. /\ f \in Heads /\ Head1(f) = f /\ Unmade(f) /\ children[f] = 0 /\ f = Top.file /\ frames # <<>>
    BY <1>1, AtDecision
  <1>3. children' = [children EXCEPT ![f] = 0]
    BY <1>1, <1>2 DEF OrderInv, TypeInv, TypeOK
  <1>4. /\ Grouped' /\ Kept /\ OthersSame(f)
        /\ \A g \in Files : Head1(g) = f => commandState'[g] = "deps_running"
    BY <1>1, <1>2, <1>3, StateMarks
  <1>5. "deps_running" \in InProgress
    BY DEF InProgress
  <1> QED
    BY <1>1, <1>2, <1>4, <1>5, PopInv DEF OthersSame

LEMMA MustRemakeInv ==
    ASSUME OrderInv, TypeInv', NEW f \in Files, MustRemake(f)
    PROVE  OrderInv'
  <1>1. /\ Decide(f) /\ UNCHANGED <<make, deps, considered, frames, children, updateStatus, updated>>
        /\ commandState' = StateOfGroup(f, "not_started")
        /\ pc' = "new_job" /\ ~Top.running /\ Top.status = Success
        /\ updating' = updating \ {f} /\ pc = "walk"
    BY DEF MustRemake, Decided, Decide, given, procs
  <1>2. /\ f \in Heads /\ Head1(f) = f /\ Unmade(f) /\ children[f] = 0 /\ f = Top.file
        /\ frames # <<>> /\ Top.left = {}
    BY <1>1, AtDecision
  <1>3. children' = [children EXCEPT ![f] = 0]
    BY <1>1, <1>2 DEF OrderInv, TypeInv, TypeOK
  <1>4. /\ Grouped' /\ Kept /\ OthersSame(f)
        /\ \A g \in Files : Head1(g) = f => commandState'[g] = "not_started"
    BY <1>1, <1>2, <1>3, StateMarks
  <1>5. Unmade(f)'
    BY <1>1, <1>2, <1>4 DEF Unmade
  <1> QED
    BY <1>1, <1>2, <1>4, <1>5, HeldBackInv

LEMMA NewJobInv ==
    ASSUME OrderInv, TypeInv', NEW f \in Files, NewJob(f)
    PROVE  OrderInv'
  <1>1. /\ pc = "new_job" /\ f = Top.file /\ frames # <<>>
        /\ UNCHANGED <<make, deps, considered, updating, updateStatus, updated>>
        /\ commandState' = StateOfGroup(f, "running")
        /\ children' = [children EXCEPT ![f] = @ + 1]
        /\ (pc' = "linear" /\ UNCHANGED frames) \/ Return(Success)
    BY DEF NewJob, given, OrderInv, TypeInv, TypeOK
  <1>2. /\ f \in Heads /\ Head1(f) = f /\ Unmade(f) /\ children[f] = 0
        /\ frames # <<>> /\ Top.left = {}
    BY <1>1, AtDecision
  <1>3. children' = [children EXCEPT ![f] = 1]
    BY <1>1, <1>2 DEF OrderInv, TypeInv, TypeOK
  <1>4. /\ Grouped' /\ Kept /\ OthersSame(f)
        /\ \A g \in Files : Head1(g) = f => commandState'[g] = "running"
    BY <1>1, <1>2, <1>3, StateMarks
  <1>5. Stack
    BY <1>1 DEF OrderInv
  <1>6. ~Top.running /\ Top.status = Success /\ updating' = updating \ {f}
    BY <1>1, <1>5 DEF Stack
  <1>7. CASE pc' = "linear" /\ UNCHANGED frames
    BY <1>1, <1>2, <1>4, <1>6, <1>7, HeldBackInv
  <1>8. CASE Return(Success)
    <2>1. ret' = Success /\ pc' = "back" /\ frames' = Tail(frames)
      BY <1>8 DEF Return
    <2>2. "running" \in InProgress
      BY DEF InProgress
    <2> QED
      BY <1>1, <1>2, <1>4, <1>6, <2>1, <2>2, PopInv DEF OthersSame
  <1> QED
    BY <1>1, <1>7, <1>8

LEMMA LinearDoneInv ==
    ASSUME OrderInv, TypeInv', LinearDone
    PROVE  OrderInv'
  <1>1. /\ pc = "linear" /\ frames # <<>> /\ commandState[Top.file] = "finished"
        /\ UNCHANGED <<make, deps, considered, updating, commandState, updateStatus, updated, children>>
        /\ ret' = updateStatus[Top.file] /\ pc' = "back" /\ frames' = Tail(frames)
    BY DEF LinearDone, Return, given, marks, procs, OrderInv, TypeInv, TypeOK
  <1>2. Top.file \in Files /\ Head1(Top.file) = Top.file
    <2>1. PICK f : f = Top.file
      OBVIOUS
    <2> QED
      BY <1>1, <2>1, AtDecision
  <1>3. Stack /\ Grouped
    BY <1>1 DEF OrderInv
  <1>4. updating' = updating \ {Top.file}
    BY <1>1, <1>3 DEF Stack
  <1>5. \A g \in Files : Head1(g) = Top.file => updated[g]
    BY <1>1, <1>2, <1>3 DEF Grouped
  <1>6. Grouped' /\ Kept
    <2>1. \A g : Head1(g)' = Head1(g)
      BY <1>1 DEF Head1
    <2> QED
      BY <1>1, <1>3, <2>1 DEF Grouped, Kept
  <1> QED
    BY <1>1, <1>2, <1>4, <1>5, <1>6, PopInv

LEMMA OrderInit == ASSUME Init PROVE OrderInv
  <1>1. TypeInv /\ frames = <<>> /\ Len(frames) = 0 /\ pc = "pass" /\ updating = {} /\ considered = {}
    BY InitType DEF Init
  <1>2. Grouped
    <2>1. \A f \in Files : Head1(f) \in Files
      BY <1>1, GroupType DEF TypeInv, TypeOK
    <2> QED
      BY <2>1 DEF Init, Grouped
  <1>3. DepsLeft
    BY DEF Init, DepsLeft
  <1>4. Stack
    BY <1>1 DEF Stack, Chain
  <1>5. Considered /\ Returned
    BY <1>1 DEF Considered, Returned
  <1> QED
    BY <1>1, <1>2, <1>3, <1>4, <1>5 DEF OrderInv

LEMMA OrderStep == ASSUME Orderly, OrderInv, [Next]_vars PROVE OrderInv'
  <1>1. TypeInv'
    BY StepType DEF OrderInv
  <1>2. CASE PassReaps
    BY <1>2, ReapInv DEF PassReaps
  <1>3. CASE NewJobReaps
    BY <1>3, ReapInv DEF NewJobReaps
  <1>4. CASE LinearReaps
    BY <1>4, ReapInv DEF LinearReaps
  <1>5. CASE Die
    <2>1. CASE Running = {}
      BY <1>1, <1>5, <2>1, IdleInv DEF Die, given, walk, procs
    <2>2. CASE Running # {}
      BY <1>5, <2>2, ReapInv DEF Die
    <2> QED
      BY <2>1, <2>2
  <1>6. CASE BeginPass
    <2>1. pc \in {"pass", "more"} /\ pc' = "goal" /\ frames = <<>>
      BY <1>6 DEF BeginPass, OrderInv, Stack
    <2>2. UNCHANGED <<make, deps, marks, children, frames, updating, considered>>
      BY <1>6 DEF BeginPass, given, walk, procs
    <2> QED
      BY <1>1, <2>1, <2>2, IdleInv
  <1>7. CASE GoalBack
    <2>1. pc = "back" /\ pc' = "goal" /\ frames = <<>>
      BY <1>7 DEF GoalBack
    <2>2. UNCHANGED <<make, deps, marks, children, frames, updating, considered>>
      BY <1>7 DEF GoalBack, given, walk, procs
    <2> QED
      BY <1>1, <2>1, <2>2, IdleInv
  <1>8. CASE EndPass
    <2>1. pc = "goal" /\ pc' \in {"die", "pass"} /\ frames = <<>>
      BY <1>8 DEF EndPass, OrderInv, Stack
    <2>2. UNCHANGED <<make, deps, marks, children, frames, updating>> /\ considered' = {}
      BY <1>8 DEF EndPass, given, procs
    <2> QED
      BY <1>1, <2>1, <2>2, IdleInv
  <1>9. CASE WalkGoal \/ CircularDropped \/ CheckDep \/ CheckedDep
    BY <1>1, <1>9, WalkGoalInv, CircularDroppedInv, CheckDepInv, CheckedDepInv
  <1>10. ASSUME NEW f \in Files,
                \/ PrereqsRunning(f) \/ GiveUp(f) \/ NoNeedToRemake(f)
                \/ RemakeWithoutRecipe(f) \/ RunEmptyRecipe(f) \/ MustRemake(f) \/ NewJob(f)
         PROVE  OrderInv'
    BY <1>1, <1>10, PrereqsRunningInv, SettleInv, WithoutRecipeInv, MustRemakeInv, NewJobInv
  <1>11. CASE LinearDone
    BY <1>1, <1>11, LinearDoneInv
  <1>12. CASE UNCHANGED vars
    <2>1. UNCHANGED <<make, deps, commandState, updateStatus, updated, considered, updating, frames,
                      ret, children, pc>>
      BY <1>12 DEF vars, given, marks, walk, procs
    <2>2. \A f : Head1(f)' = Head1(f)
      BY <2>1 DEF Head1
    <2>3. Grouped' /\ DepsLeft'
      BY <2>1, <2>2 DEF OrderInv, Grouped, DepsLeft
    <2>4. CASE pc \in {"die", "exit"}
      BY <1>1, <2>1, <2>3, <2>4 DEF OrderInv
    <2>5. CASE pc \notin {"die", "exit"}
      <3>1. PICK fs : fs = frames
        OBVIOUS
      <3>2. Chain(fs)'
        BY <2>1, <2>5, <3>1, ChainKept DEF OrderInv, TypeInv, TypeOK, Stack, Kept, DepsType
      <3>3. Chain(frames)'
        BY <2>1, <3>1, <3>2
      <3>4. Stack'
        <4>1. Stack /\ \A k : Held(k)' <=> Held(k)
          BY <2>1, <2>5 DEF OrderInv, Held, Unmade
        <4>2. Top' = Top /\ Unmade(Top.file)' = Unmade(Top.file)
          BY <2>1 DEF Top, Unmade
        <4> QED
          BY <2>1, <3>3, <4>1, <4>2 DEF Stack, Asks, First, Before
      <3>5. Considered'
        BY <2>1, <2>2, <2>5 DEF OrderInv, Considered, Stacked
      <3>6. Returned'
        BY <2>1, <2>2, <2>5
        DEF OrderInv, Returned, Stacked, Prereq, Current, Top, First, Before, Done
      <3> QED
        BY <1>1, <2>3, <3>4, <3>5, <3>6 DEF OrderInv
    <2> QED
      BY <2>4, <2>5
  <1> QED
    BY <1>2, <1>3, <1>4, <1>5, <1>6, <1>7, <1>8, <1>9, <1>10, <1>11, <1>12 DEF Next

-----------------------------------------------------------------------------
(* The promise of module BuildOrder.                                       *)
LEMMA MadeIs ==
    ASSUME NEW f \in Heads
    PROVE  /\ Done(f) => Made(f) = "done"
           /\ Broken(f) => Made(f) = "failed"
           /\ Unmade(f) => Made(f) = "waiting"
           /\ ~updated[f] /\ commandState[f] = "running" => Made(f) = "making"
  BY DEF Made, Done, Broken, Unmade

(* Only f's mark changes, or none does.                                    *)
SameMark(g) ==
    /\ updated'[g] = updated[g] /\ updateStatus'[g] = updateStatus[g]
    /\ commandState'[g] = "running" <=> commandState[g] = "running"

LEMMA OneMade ==
    ASSUME UNCHANGED make, NEW f \in Heads, \A g \in Heads \ {f} : SameMark(g)
    PROVE  [g \in Files |-> Made(g)]' = [[g \in Files |-> Made(g)] EXCEPT ![f] = Made(f)']
  <1>1. Heads' = Heads
    BY DEF Heads, Head1
  <1>2. ASSUME NEW g \in Files, g # f PROVE Made(g)' = Made(g)
    <2>1. CASE g \in Heads
      <3>1. SameMark(g)
        BY <1>2, <2>1
      <3>2. CASE updated[g]
        BY <1>1, <2>1, <3>1, <3>2 DEF Made, SameMark
      <3>3. CASE ~updated[g]
        BY <1>1, <2>1, <3>1, <3>3 DEF Made, SameMark
      <3> QED
        BY <3>2, <3>3
    <2>2. CASE g \notin Heads
      BY <1>1, <2>2 DEF Made
    <2> QED
      BY <2>1, <2>2
  <1> QED
    BY <1>2

LEMMA NeedsSame ==
    ASSUME UNCHANGED <<make, deps>>
    PROVE  {<<Head1(e[1]), Head1(e[2])>> : e \in Edge}' = {<<Head1(e[1]), Head1(e[2])>> : e \in Edge}
  BY DEF Edge, Head1, HackEdge

LEMMA Quiet ==
    ASSUME UNCHANGED <<make, deps>>, \A g \in Heads : SameMark(g)
    PROVE  UNCHANGED Promise!vars
  <1>1. Heads' = Heads
    BY DEF Heads, Head1
  <1>2. ASSUME NEW g \in Files PROVE Made(g)' = Made(g)
    <2>1. CASE g \in Heads
      <3>1. SameMark(g)
        BY <2>1
      <3>2. CASE updated[g]
        BY <1>1, <2>1, <3>1, <3>2 DEF Made, SameMark
      <3>3. CASE ~updated[g]
        BY <1>1, <2>1, <3>1, <3>3 DEF Made, SameMark
      <3> QED
        BY <3>2, <3>3
    <2>2. CASE g \notin Heads
      BY <1>1, <2>2 DEF Made
    <2> QED
      BY <2>1, <2>2
  <1> QED
    BY <1>2, NeedsSame DEF Promise!vars

(* What the edges of a group say of its needs.                             *)
LEMMA NeedsOfGroup ==
    ASSUME make \in Makefiles, DepsType, NEW f \in Heads
    PROVE  /\ \A d \in Promise!Prereqs(f) :
                 \E x \in Edges(f) : ~HackEdge(x.edge) /\ d = Head1(x.edge[2])
           /\ \A x \in Edges(f) : ~HackEdge(x.edge) =>
                 /\ x.edge \in Edge /\ Head1(x.edge[2]) \in Promise!Prereqs(f)
                 /\ Head1(x.edge[2]) \in Heads
                 /\ <<f, Head1(x.edge[2])>> \in {<<Head1(e[1]), Head1(e[2])>> : e \in Edge}
  <1>1. ASSUME NEW d \in Promise!Prereqs(f)
        PROVE  \E x \in Edges(f) : ~HackEdge(x.edge) /\ d = Head1(x.edge[2])
    <2>1. PICK e \in Edge : <<f, d>> = <<Head1(e[1]), Head1(e[2])>>
      BY DEF Promise!Prereqs
    <2>2. /\ e = <<e[1], e[2]>> /\ e[1] \in Files /\ e[2] \in Files /\ Head1(e[1]) = f
          /\ e[2] \in Range(deps[e[1]]) /\ ~HackEdge(e) /\ d = Head1(e[2])
      BY <2>1 DEF Edge
    <2>3. PICK x \in Edges(f) : x.edge = <<e[1], e[2]>>
      BY <2>2, EdgesOfGroup
    <2> QED
      BY <2>2, <2>3
  <1>2. ASSUME NEW x \in Edges(f), ~HackEdge(x.edge)
        PROVE  /\ x.edge \in Edge /\ Head1(x.edge[2]) \in Promise!Prereqs(f)
               /\ Head1(x.edge[2]) \in Heads
               /\ <<f, Head1(x.edge[2])>> \in {<<Head1(e[1]), Head1(e[2])>> : e \in Edge}
    <2>1. /\ x.edge = <<x.edge[1], x.edge[2]>> /\ x.edge[1] \in Files /\ x.edge[2] \in Files
          /\ Head1(x.edge[1]) = f /\ x.edge[2] \in Range(deps[x.edge[1]])
      BY EdgesOfGroup
    <2>2. PICK o : o = x.edge[1]
      OBVIOUS
    <2>3. PICK p : p = x.edge[2]
      OBVIOUS
    <2>4. x.edge = <<o, p>> /\ <<o, p>> \in Edge
      BY <1>2, <2>1, <2>2, <2>3 DEF Edge
    <2>5. <<f, Head1(p)>> \in {<<Head1(e[1]), Head1(e[2])>> : e \in Edge}
      BY <2>1, <2>2, <2>4
    <2>6. Head1(p) \in Heads /\ Head1(p) \in Files
      BY <2>1, <2>3, HeadOfGroup
    <2> QED
      BY <2>3, <2>4, <2>5, <2>6 DEF Promise!Prereqs
  <1> QED
    BY <1>1, <1>2

LEMMA ReadyWhenDone ==
    ASSUME make \in Makefiles, DepsType, NEW f \in Heads,
           \A d \in Edges(f) : HackEdge(d.edge) \/ Done(Head1(d.edge[2]))
    PROVE  Promise!Ready(f)
  <1> SUFFICES ASSUME NEW d \in Promise!Prereqs(f)
               PROVE  [g \in Files |-> Made(g)][d] = "done"
    BY DEF Promise!Ready
  <1>1. PICK x \in Edges(f) : ~HackEdge(x.edge) /\ d = Head1(x.edge[2])
    BY NeedsOfGroup
  <1>2. Done(d) /\ d \in Heads /\ d \in Files
    BY <1>1, NeedsOfGroup DEF Heads
  <1> QED
    BY <1>2, MadeIs

LEMMA ReapPromise ==
    ASSUME OrderInv, NEW f \in Files, NEW r \in {Success, Failed}, NEW next, Reap(f, r, next)
    PROVE  [Promise!Next]_Promise!vars
  <1>1. /\ f \in Heads /\ commandState[f] = "running" /\ ~updated[f]
        /\ updated'[f] /\ updateStatus'[f] = r /\ UNCHANGED <<make, deps>>
        /\ \A g \in Files : Head1(g) # f =>
              /\ commandState'[g] = commandState[g] /\ updated'[g] = updated[g]
              /\ updateStatus'[g] = updateStatus[g]
    <2>1. TypeInv /\ Grouped
      BY DEF OrderInv
    <2>2. UNCHANGED <<make, deps>>
      BY DEF Reap, given
    <2> QED
      BY <2>1, <2>2, ReapMarks
  <1>2. \A g \in Heads \ {f} : SameMark(g)
    BY <1>1 DEF SameMark, Heads
  <1>3. Made(f) = "making"
    BY <1>1, MadeIs
  <1>4. Made(f)' = IF r = Success THEN "done" ELSE "failed"
    BY <1>1 DEF Made, Heads, Head1
  <1>5. [g \in Files |-> Made(g)]' = [[g \in Files |-> Made(g)] EXCEPT ![f] = Made(f)']
    BY <1>1, <1>2, OneMade
  <1>6. {<<Head1(e[1]), Head1(e[2])>> : e \in Edge}' = {<<Head1(e[1]), Head1(e[2])>> : e \in Edge}
    BY <1>1, NeedsSame
  <1>7. PICK result : result = Made(f)'
    OBVIOUS
  <1>8. Promise!Finish(f, result) /\ result \in {"done", "failed"}
    BY <1>3, <1>4, <1>5, <1>6, <1>7 DEF Promise!Finish
  <1> QED
    BY <1>8 DEF Promise!Next

(* f is settled: without a recipe that ran, and with its prerequisites.    *)
LEMMA SettlePromise ==
    ASSUME OrderInv, NEW f \in Files, Decide(f), ~Top.running, UNCHANGED <<make, deps>>,
           OthersSame(f), \A g \in Files : Head1(g) # f => updateStatus'[g] = updateStatus[g],
           updated'[f], Top.status # Success => updateStatus'[f] # Success
    PROVE  [Promise!Next]_Promise!vars
  <1>1. /\ f \in Heads /\ Unmade(f) /\ make \in Makefiles /\ DepsType
        /\ \A d \in Edges(f) : HackEdge(d.edge) \/ Done(Head1(d.edge[2])) \/ Top.status # Success
        /\ Top.status # Success =>
              \E d \in Edges(f) : ~HackEdge(d.edge) /\ Broken(Head1(d.edge[2]))
    BY AtDecision DEF OrderInv, TypeInv, TypeOK, DepsType, Decide
  <1>2. \A g \in Heads \ {f} : SameMark(g)
    BY DEF SameMark, Heads, OthersSame
  <1>3. Made(f) = "waiting"
    BY <1>1, MadeIs
  <1>4. Made(f)' = IF updateStatus'[f] = Success THEN "done" ELSE "failed"
    BY <1>1 DEF Made, Heads, Head1
  <1>5. [g \in Files |-> Made(g)]' = [[g \in Files |-> Made(g)] EXCEPT ![f] = Made(f)']
    BY <1>1, <1>2, OneMade
  <1>6. {<<Head1(e[1]), Head1(e[2])>> : e \in Edge}' = {<<Head1(e[1]), Head1(e[2])>> : e \in Edge}
    BY NeedsSame
  <1>7. CASE Top.status = Success
    <2>1. Promise!Ready(f)
      BY <1>1, <1>7, ReadyWhenDone
    <2>2. PICK result : result = Made(f)'
      OBVIOUS
    <2>3. Promise!Settle(f, result) /\ result \in {"done", "failed"}
      BY <1>3, <1>4, <1>5, <1>6, <2>1, <2>2 DEF Promise!Settle
    <2> QED
      BY <2>3 DEF Promise!Next
  <1>8. CASE Top.status # Success
    <2>1. PICK x \in Edges(f) : ~HackEdge(x.edge) /\ Broken(Head1(x.edge[2]))
      BY <1>1, <1>8
    <2>2. PICK d : d = Head1(x.edge[2])
      OBVIOUS
    <2>3. d \in Promise!Prereqs(f) /\ d \in Heads /\ d \in Files
      BY <1>1, <2>1, <2>2, NeedsOfGroup DEF Heads
    <2>4. [g \in Files |-> Made(g)][d] = "failed"
      BY <2>1, <2>2, <2>3, MadeIs
    <2>5. Made(f)' = "failed"
      BY <1>4, <1>8
    <2>6. Promise!GiveUp(f)
      BY <1>3, <1>5, <1>6, <2>3, <2>4, <2>5 DEF Promise!GiveUp
    <2> QED
      BY <2>6 DEF Promise!Next
  <1> QED
    BY <1>7, <1>8

LEMMA DecisionPromise ==
    ASSUME Orderly, OrderInv, NEW f \in Files,
           GiveUp(f) \/ NoNeedToRemake(f) \/ RunEmptyRecipe(f) \/ RemakeWithoutRecipe(f)
    PROVE  [Promise!Next]_Promise!vars
  <1>1. Decide(f) /\ ~Top.running /\ UNCHANGED <<make, deps, children>>
    BY DEF GiveUp, NoNeedToRemake, RunEmptyRecipe, RemakeWithoutRecipe, Decided, given, procs
  <1>2. /\ Head1(f) = f /\ Top \in Frame /\ ~updated[f] /\ make \in Makefiles /\ Grouped
    BY <1>1, AtDecision DEF Unmade, OrderInv, TypeInv, TypeOK, Decide
  <1>3. Statuses = {Success, None, Failed} /\ Success # None /\ Failed # Success /\ Failed # None
    BY DEF Statuses, Success, None, Failed
  <1>4. CASE GiveUp(f)
    <2>1. PICK s : s = IF Top.status = None THEN Failed ELSE Top.status
      OBVIOUS
    <2>2. s \in Statuses /\ s \notin {Success, None} /\ NoticeFinished(f, s, FALSE, disk)
      BY <1>2, <1>3, <1>4, <2>1 DEF GiveUp, Frame
    <2> QED
      BY <1>1, <2>2, SettledMarks, SettlePromise
  <1>5. CASE NoNeedToRemake(f)
    <2>1. updateStatus[f] = None
      BY <1>2 DEF Grouped
    <2>2. NoticeFinished(f, None, FALSE, disk) /\ Top.status = Success
      BY <1>5, <2>1 DEF NoNeedToRemake, Decided
    <2> QED
      BY <1>1, <1>3, <2>2, SettledMarks, SettlePromise
  <1>6. CASE RunEmptyRecipe(f)
    <2>1. NoticeFinished(f, Success, TRUE, disk) /\ Top.status = Success
      BY <1>6 DEF RunEmptyRecipe, Decided
    <2> QED
      BY <1>1, <1>3, <2>1, SettledMarks, SettlePromise
  <1>7. CASE RemakeWithoutRecipe(f)
    <2>1. /\ Top.status = Success /\ make.cmds[f] = "none"
          /\ NoticeFinished(f, Success, FALSE, disk) \/ NoticeFinished(f, Failed, FALSE, disk)
      BY <1>7 DEF RemakeWithoutRecipe, Decided
    <2>2. Group(f) = {f}
      BY <1>2, <2>1, SingleWithoutRecipe
    <2> QED
      BY <1>1, <1>3, <2>1, <2>2, SettledMarks, SettlePromise
  <1> QED
    BY <1>4, <1>5, <1>6, <1>7

LEMMA NewJobPromise ==
    ASSUME OrderInv, NEW f \in Files, NewJob(f)
    PROVE  [Promise!Next]_Promise!vars
  <1>1. /\ pc = "new_job" /\ f = Top.file
        /\ UNCHANGED <<make, deps, updateStatus, updated>>
        /\ commandState' = StateOfGroup(f, "running")
        /\ children' = [children EXCEPT ![f] = @ + 1]
    BY DEF NewJob, given
  <1>2. ~Top.running /\ Top.status = Success
    BY <1>1 DEF OrderInv, Stack
  <1>3. /\ f \in Heads /\ Unmade(f) /\ children[f] = 0 /\ make \in Makefiles /\ DepsType
        /\ \A d \in Edges(f) : HackEdge(d.edge) \/ Done(Head1(d.edge[2]))
    BY <1>1, <1>2, AtDecision DEF OrderInv, TypeInv, TypeOK, DepsType
  <1>4. children' = [children EXCEPT ![f] = 1]
    BY <1>1, <1>3 DEF OrderInv, TypeInv, TypeOK
  <1>5. OthersSame(f) /\ \A g \in Files : Head1(g) = f => commandState'[g] = "running"
    BY <1>1, <1>3, <1>4, StateMarks
  <1>6. \A g \in Heads \ {f} : SameMark(g)
    BY <1>1, <1>5 DEF SameMark, Heads, OthersSame
  <1>7. Made(f) = "waiting"
    BY <1>3, MadeIs
  <1>8. Made(f)' = "making"
    BY <1>1, <1>3, <1>5 DEF Made, Heads, Head1, Unmade
  <1>9. [g \in Files |-> Made(g)]' = [[g \in Files |-> Made(g)] EXCEPT ![f] = Made(f)']
    BY <1>1, <1>3, <1>6, OneMade
  <1>10. {<<Head1(e[1]), Head1(e[2])>> : e \in Edge}' = {<<Head1(e[1]), Head1(e[2])>> : e \in Edge}
    BY <1>1, NeedsSame
  <1>11. Promise!Ready(f)
    BY <1>3, ReadyWhenDone
  <1>12. Promise!Start(f)
    BY <1>7, <1>8, <1>9, <1>10, <1>11 DEF Promise!Start
  <1> QED
    BY <1>12 DEF Promise!Next

(* Each activation but the innermost waits for an edge that leads to the   *)
(* next one, so what is at the bottom of the stack leads to all of it.     *)
LEMMA AskedEdge ==
    ASSUME OrderInv, pc \notin {"die", "exit"}, NEW k \in 2 .. Len(frames)
    PROVE  \E d \in Edges(frames[k].file) :
              ~HackEdge(d.edge) /\ Head1(d.edge[2]) = frames[k - 1].file
  <1>1. /\ frames \in Seq(Frame) /\ Chain(frames) /\ Waiting(frames) /\ make \in Makefiles /\ DepsType
    BY DEF OrderInv, TypeInv, TypeOK, Stack, DepsType
  <1>2. PICK x : x = frames[k]
    OBVIOUS
  <1>3. k \in 1 .. Len(frames)
    OBVIOUS
  <1>4. x \in Frame /\ x.left # {} /\ Sees(x)
    BY <1>1, <1>2, <1>3 DEF Waiting, Chain
  <1>5. First(x.left) \in x.left
    BY <1>4, FirstIn DEF Frame
  <1>6. PICK d : d = First(x.left)
    OBVIOUS
  <1>7. d \in Edges(x.file) /\ x.file \in Heads /\ d.edge[2] = Asks(x)
    BY <1>4, <1>5, <1>6 DEF Sees, Asks
  <1>8. Head1(d.edge[1]) = x.file
    BY <1>1, <1>7, EdgesOfGroup
  <1>9. Head1(Asks(x)) = frames[k - 1].file /\ Asks(x) # x.file
    BY <1>1, <1>2, <1>3 DEF Chain
  <1>10. ~HackEdge(d.edge)
    BY <1>7, <1>8, <1>9 DEF HackEdge
  <1> QED
    BY <1>2, <1>7, <1>9, <1>10

LEMMA StackDown ==
    ASSUME frames \in Seq(Frame), NEW S, NEW k \in 1 .. Len(frames), frames[k].file \in S,
           NEW i \in 1 .. k,
           \A j \in 2 .. Len(frames) : frames[j].file \in S => frames[j - 1].file \in S
    PROVE  frames[i].file \in S
  <1> DEFINE T == {j \in i .. k : frames[j].file \in S}
  <1>1. T \subseteq Nat /\ k \in T
    OBVIOUS
  <1>2. PICK j \in T : \A l \in T : j <= l
    BY <1>1, Least
  <1>3. CASE j = i
    BY <1>2, <1>3
  <1>4. CASE j # i
    <2>1. j \in 2 .. Len(frames) /\ j - 1 \in i .. k /\ frames[j].file \in S
      BY <1>2, <1>4
    <2>2. j - 1 \in T
      BY <2>1
    <2> QED
      BY <1>2, <2>1, <2>2
  <1> QED
    BY <1>3, <1>4

(* A prerequisite that is being considered needs the innermost one's file. *)
LEMMA NeedsDown ==
    ASSUME OrderInv, pc = "walk", NEW k \in 1 .. Len(frames),
           NEW S, frames[k].file \in S,
           \A e \in {<<Head1(e[1]), Head1(e[2])>> : e \in Edge} : e[1] \in S => e[2] \in S
    PROVE  frames[1].file \in S
  <1>1. /\ frames \in Seq(Frame) /\ Chain(frames) /\ make \in Makefiles /\ DepsType
    BY DEF OrderInv, TypeInv, TypeOK, Stack, DepsType
  <1>2. ASSUME NEW j \in 2 .. Len(frames), frames[j].file \in S
        PROVE  frames[j - 1].file \in S
    <2>1. PICK d \in Edges(frames[j].file) : ~HackEdge(d.edge) /\ Head1(d.edge[2]) = frames[j - 1].file
      BY AskedEdge
    <2>2. frames[j].file \in Heads
      <3>1. j \in 1 .. Len(frames)
        OBVIOUS
      <3> QED
        BY <1>1, <3>1 DEF Chain, Sees
    <2>3. <<frames[j].file, frames[j - 1].file>> \in {<<Head1(e[1]), Head1(e[2])>> : e \in Edge}
      BY <1>1, <2>1, <2>2, NeedsOfGroup
    <2> QED
      BY <1>2, <2>3
  <1>3. 1 \in 1 .. k
    OBVIOUS
  <1> QED
    BY <1>1, <1>2, <1>3, StackDown

LEMMA DroppedEdge ==
    ASSUME OrderInv, CircularDropped, ~HackEdge(Current.edge)
    PROVE  Edge' \subseteq Edge /\ Edge \subseteq Edge' \cup {<<Owner, Prereq>>}
  <1>1. /\ pc = "walk" /\ frames # <<>> /\ Top.left # {} /\ make' = make
        /\ deps' = [deps EXCEPT ![Owner] = Restrict(@, DOMAIN @ \ {Current.nth[2]})]
    BY DEF CircularDropped, AtPrereq, OrderInv, TypeInv, TypeOK, given
  <1>2. /\ Current \in Edges(Top.file) /\ Top.file \in Heads /\ Owner \in Files
        /\ Current.edge = <<Owner, Prereq>>
    BY <1>1, CurrentEdge
  <1>3. DepsType
    BY DEF OrderInv, TypeInv, TypeOK, DepsType
  <1>4. PICK J : J = Current.nth[2]
    OBVIOUS
  <1>5. /\ \A f \in Files : f # Owner => deps'[f] = deps[f]
        /\ DOMAIN deps'[Owner] = DOMAIN deps[Owner] \ {J}
        /\ \A j \in DOMAIN deps[Owner] \ {J} : deps'[Owner][j] = deps[Owner][j]
    BY <1>1, <1>2, <1>3, <1>4 DEF DepsType, Restrict
  <1>6. deps[Owner][J] = Prereq
    <2>1. PICK i \in DOMAIN make.group[Top.file] : \E j \in DOMAIN deps[make.group[Top.file][i]] :
             Current = [nth |-> <<i, j>>,
                        edge |-> <<make.group[Top.file][i], deps[make.group[Top.file][i]][j]>>]
      BY <1>2, InEdges
    <2> QED
      BY <1>4, <2>1 DEF Owner, Prereq
  <1>7. \A e : HackEdge(e)' = HackEdge(e)
    BY <1>1 DEF HackEdge, Head1
  <1>8. ASSUME NEW f \in Files, NEW p, p \in Range(deps'[f]) PROVE p \in Range(deps[f])
    BY <1>5, <1>8 DEF Range
  <1>9. ASSUME NEW f \in Files, NEW p, p \in Range(deps[f]), f # Owner \/ p # Prereq
        PROVE  p \in Range(deps'[f])
    BY <1>5, <1>6, <1>9 DEF Range
  <1>10. Edge' \subseteq Edge
    BY <1>7, <1>8 DEF Edge
  <1>11. ASSUME NEW e \in Edge PROVE e \in Edge' \cup {<<Owner, Prereq>>}
    <2>1. /\ e = <<e[1], e[2]>> /\ e \in Files \X Files /\ e[1] \in Files
          /\ e[2] \in Range(deps[e[1]]) /\ ~HackEdge(e)
      BY DEF Edge
    <2>2. CASE e[1] # Owner \/ e[2] # Prereq
      BY <1>7, <1>9, <2>1, <2>2 DEF Edge
    <2>3. CASE e[1] = Owner /\ e[2] = Prereq
      BY <2>1, <2>3
    <2> QED
      BY <2>2, <2>3
  <1> QED
    BY <1>10, <1>11

(* A circular prerequisite leads back to the stack.                        *)
LEMMA DroppedOnStack ==
    ASSUME OrderInv, pc = "walk", frames # <<>>, Top.left # {}, Prereq \in updating
    PROVE  \E k \in 1 .. Len(frames) : Head1(Prereq) = frames[k].file
  <1>1. Stack /\ Chain(frames)
    BY DEF OrderInv, Stack
  <1>2. PICK k \in 1 .. Len(frames) : Prereq = frames[k].file \/ (k > 1 /\ Prereq = Asks(frames[k]))
    BY <1>1 DEF Stack
  <1>3. CASE Prereq = frames[k].file
    <2>1. Sees(frames[k])
      BY <1>1 DEF Chain
    <2>2. Head1(Prereq) = Prereq
      BY <1>3, <2>1 DEF Sees, Heads
    <2> QED
      BY <1>3, <2>2
  <1>4. CASE k > 1 /\ Prereq = Asks(frames[k])
    <2>1. k \in 2 .. Len(frames) /\ k - 1 \in 1 .. Len(frames)
      BY <1>4
    <2>2. Head1(Prereq) = frames[k - 1].file
      BY <1>1, <1>4, <2>1 DEF Chain
    <2> QED
      BY <2>1, <2>2
  <1> QED
    BY <1>2, <1>3, <1>4

LEMMA DropPromise ==
    ASSUME OrderInv, CircularDropped
    PROVE  [Promise!Next]_Promise!vars
  <1>1. /\ pc = "walk" /\ frames # <<>> /\ Top.left # {} /\ Prereq \in updating
        /\ UNCHANGED <<make, commandState, updateStatus, updated>>
    BY DEF CircularDropped, AtPrereq, OrderInv, TypeInv, TypeOK, given, marks
  <1>2. /\ Top = frames[1] /\ 1 \in 1 .. Len(frames) /\ Top.file \in Heads /\ Top.file \in Files
        /\ Current \in Edges(Top.file) /\ Current.edge = <<Owner, Prereq>> /\ Head1(Owner) = Top.file
        /\ Prereq \in Files
    BY <1>1, CurrentEdge
  <1>3. make \in Makefiles /\ DepsType /\ Stack /\ Chain(frames)
    BY <1>1 DEF OrderInv, TypeInv, TypeOK, DepsType, Stack
  <1>4. \A g \in Heads : SameMark(g)
    BY <1>1 DEF SameMark
  <1>5. CASE HackEdge(Current.edge)
    <2>1. deps' = deps
      BY <1>5 DEF CircularDropped
    <2> QED
      BY <1>1, <1>4, <2>1, Quiet
  <1>6. CASE ~HackEdge(Current.edge)
    <2> DEFINE needs == {<<Head1(e[1]), Head1(e[2])>> : e \in Edge}
    <2>1. PICK p : p = Head1(Prereq)
      OBVIOUS
    <2>2. PICK h : h = Top.file
      OBVIOUS
    <2>3. <<h, p>> \in needs /\ p \in Heads /\ p \in Files
      BY <1>2, <1>3, <1>6, <2>1, <2>2, NeedsOfGroup DEF Prereq, Heads
    <2>4. \E k \in 1 .. Len(frames) : p = frames[k].file
      BY <1>1, <2>1, DroppedOnStack
    <2>5. Promise!Reaches(p, h)
      <3> SUFFICES ASSUME NEW S \in SUBSET Files, p \in S, \A e \in needs : e[1] \in S => e[2] \in S
                   PROVE  h \in S
        BY DEF Promise!Reaches
      <3> QED
        BY <1>1, <1>2, <2>2, <2>4, NeedsDown
    <2>6. Made(h) = "waiting"
      <3>1. Unmade(Top.file)
        BY <1>1, <1>2, <1>3 DEF Stack, Held
      <3> QED
        BY <1>2, <2>2, <3>1, MadeIs
    <2>7. [g \in Files |-> Made(g)]' = [g \in Files |-> Made(g)]
      <3>1. Heads' = Heads
        BY <1>1 DEF Heads, Head1
      <3> QED
        BY <1>1, <3>1 DEF Made
    <2>8. needs' \subseteq needs /\ needs \subseteq needs' \cup {<<h, p>>}
      <3>1. Edge' \subseteq Edge /\ Edge \subseteq Edge' \cup {<<Owner, Prereq>>}
        BY <1>6, DroppedEdge
      <3>2. \A f : Head1(f)' = Head1(f)
        BY <1>1 DEF Head1
      <3>3. needs' = {<<Head1(e[1]), Head1(e[2])>> : e \in Edge'}
        BY <3>2
      <3>4. ASSUME NEW n \in needs PROVE n \in needs' \cup {<<h, p>>}
        <4>1. PICK e \in Edge : n = <<Head1(e[1]), Head1(e[2])>>
          OBVIOUS
        <4>2. CASE e \in Edge'
          BY <3>3, <4>1, <4>2
        <4>3. CASE e = <<Owner, Prereq>>
          BY <1>2, <2>1, <2>2, <4>1, <4>3
        <4> QED
          BY <3>1, <4>2, <4>3
      <3>5. needs' \subseteq needs
        BY <3>1, <3>3
      <3> QED
        BY <3>4, <3>5
    <2>9. CASE <<h, p>> \in needs'
      <3>1. needs' = needs
        BY <2>8, <2>9
      <3> QED
        BY <2>7, <3>1 DEF Promise!vars
    <2>10. CASE <<h, p>> \notin needs'
      <3>1. needs' = needs \ {<<h, p>>}
        BY <2>8, <2>10
      <3>2. h \in Files
        BY <1>2, <2>2
      <3>3. Promise!Drop(h, p)
        BY <2>3, <2>5, <2>6, <2>7, <3>1, <3>2 DEF Promise!Drop
      <3> QED
        BY <2>3, <3>2, <3>3 DEF Promise!Next
    <2> QED
      BY <2>9, <2>10
  <1> QED
    BY <1>5, <1>6

LEMMA PromiseInit == ASSUME Init PROVE Promise!Init
  <1>1. make \in Makefiles
    BY DEF Init
  <1>2. \A f \in Files : Head1(f) \in Files
    BY <1>1, GroupType
  <1>3. {<<Head1(e[1]), Head1(e[2])>> : e \in Edge} \in SUBSET (Files \X Files)
    BY <1>2 DEF Edge
  <1>4. \A f \in Files : Made(f) = "waiting"
    BY DEF Init, Made
  <1> QED
    BY <1>3, <1>4 DEF Promise!Init

LEMMA PromiseStep == ASSUME Orderly, OrderInv, [Next]_vars PROVE [Promise!Next]_Promise!vars
  <1>1. CASE PassReaps \/ NewJobReaps \/ LinearReaps
    BY <1>1, ReapPromise DEF PassReaps, NewJobReaps, LinearReaps
  <1>2. CASE Die
    <2>1. CASE Running = {}
      <3>1. UNCHANGED <<make, deps, commandState, updateStatus, updated>>
        BY <1>2, <2>1 DEF Die, given, marks
      <3> QED
        BY <3>1, Quiet DEF SameMark
    <2>2. CASE Running # {}
      BY <1>2, <2>2, ReapPromise DEF Die
    <2> QED
      BY <2>1, <2>2
  <1>3. CASE BeginPass \/ WalkGoal \/ GoalBack \/ EndPass \/ CheckDep \/ CheckedDep \/ LinearDone
    <2>1. UNCHANGED <<make, deps, commandState, updateStatus, updated>>
      BY <1>3 DEF BeginPass, WalkGoal, GoalBack, EndPass, CheckDep, CheckedDep, LinearDone, given, marks
    <2> QED
      BY <2>1, Quiet DEF SameMark
  <1>4. CASE CircularDropped
    BY <1>4, DropPromise
  <1>5. ASSUME NEW f \in Files,
               GiveUp(f) \/ NoNeedToRemake(f) \/ RunEmptyRecipe(f) \/ RemakeWithoutRecipe(f)
        PROVE  [Promise!Next]_Promise!vars
    BY <1>5, DecisionPromise
  <1>6. ASSUME NEW f \in Files, NewJob(f) PROVE [Promise!Next]_Promise!vars
    BY <1>6, NewJobPromise
  <1>7. ASSUME NEW f \in Files, PrereqsRunning(f) \/ MustRemake(f) PROVE [Promise!Next]_Promise!vars
    <2>1. Decide(f) /\ UNCHANGED <<make, deps, children, updateStatus, updated>>
      BY <1>7 DEF PrereqsRunning, MustRemake, Decided, given, procs
    <2>2. f \in Heads /\ Head1(f) = f /\ Unmade(f) /\ children[f] = 0 /\ children \in [Files -> Nat]
      BY <2>1, AtDecision DEF Decide, OrderInv, TypeInv, TypeOK
    <2>3. PICK s \in {"deps_running", "not_started"} : commandState' = StateOfGroup(f, s)
      BY <1>7 DEF PrereqsRunning, MustRemake
    <2>4. children' = [children EXCEPT ![f] = 0]
      BY <2>1, <2>2
    <2>5. OthersSame(f) /\ \A g \in Files : Head1(g) = f => commandState'[g] = s
      BY <2>1, <2>2, <2>3, <2>4, StateMarks
    <2>6. \A g \in Heads : SameMark(g)
      BY <2>1, <2>2, <2>5 DEF SameMark, Heads, OthersSame, Unmade
    <2> QED
      BY <2>1, <2>6, Quiet
  <1>8. CASE UNCHANGED vars
    <2>1. UNCHANGED <<make, deps, commandState, updateStatus, updated>>
      BY <1>8 DEF vars, given, marks
    <2> QED
      BY <2>1, Quiet DEF SameMark
  <1> QED
    BY <1>1, <1>2, <1>3, <1>4, <1>5, <1>6, <1>7, <1>8 DEF Next

(* Whatever the order of the walk and of the recipes' ends: the recipe of  *)
(* a group runs once at most and only when all prerequisites of its        *)
(* members are done, a group is given up only for a failed prerequisite,   *)
(* and an edge is dropped only from a cycle: for every set of orderly      *)
(* makefiles, every number of files and of slots.                          *)
THEOREM Ordered == ASSUME Orderly PROVE Spec => ImplementsBuildOrder
  <1>1. Init => OrderInv /\ Promise!Init
    BY OrderInit, PromiseInit
  <1>2. OrderInv /\ [Next]_vars => OrderInv'
    BY OrderStep
  <1>3. OrderInv /\ [Next]_vars => [Promise!Next]_Promise!vars
    BY PromiseStep
  <1> QED
    BY <1>1, <1>2, <1>3, PTL DEF Spec, ImplementsBuildOrder, Promise!Spec

-----------------------------------------------------------------------------
(* The exit status.  A failure is not forgotten as long as the goal it was *)
(* made for is on the chain: whatever set contains the heads of the goals  *)
(* and the prerequisites of its members that are not yet made contains     *)
(* what runs, and a failure if there was one.                              *)
Closed(S) ==
    /\ \A g \in Range(goals) : Head1(g) \in S
    /\ \A h \in S \cap Heads : Unmade(h) =>
          \A d \in Edges(h) : HackEdge(d.edge) \/ Head1(d.edge[2]) \in S

Holds(S) ==
    /\ Running \subseteq S
    /\ lost # {} => status = Failed \/ \E h \in S \cap Heads : Broken(h)

Reached == \A S \in SUBSET Files : Closed(S) => Holds(S)

(* The bottom of the stack works for the goal; an activation has seen the  *)
(* end of every prerequisite it is done with, or has to wait.              *)
Looked(x) ==
    \A d \in Edges(x.file) \ x.left : HackEdge(d.edge) \/ updated[Head1(d.edge[2])] \/ x.running

Walked(fs) ==
    /\ \A k \in 1 .. Len(fs) : Looked(fs[k])
    /\ fs # <<>> => fs[Len(fs)].file = Head1(goals[at])

Told == status = Failed \/ (\E h \in Heads : Broken(h)) => lost # {}

HeadGoals == make.keepGoing => \A g \in Range(goals) : Head1(g) = g

FailInv ==
    /\ OrderInv /\ Told /\ HeadGoals
    /\ pc \in {"die", "exit"} /\ goals = <<>> => Running = {} /\ (lost # {} => status = Failed)
    /\ pc \notin {"die", "exit"} =>
          Walked(frames) /\ Reached /\ (lost # {} => make.keepGoing)

LEMMA RunningHeads ==
    ASSUME OrderInv
    PROVE  /\ Running \subseteq Heads
           /\ \A f \in Running : commandState[f] = "running" /\ ~updated[f]
           /\ \A f \in Heads : commandState[f] = "running" => f \in Running
  BY DEF OrderInv, TypeInv, TypeOK, Grouped, Running, Heads

(* The heads that the edges of an activation lead to.                      *)
LEMMA EdgeHeads ==
    ASSUME OrderInv, NEW h \in Heads
    PROVE  \A d \in Edges(h) : Head1(d.edge[2]) \in Heads /\ Head1(d.edge[2]) \in Files
  <1>1. make \in Makefiles /\ DepsType
    BY DEF OrderInv, TypeInv, TypeOK, DepsType
  <1> QED
    BY <1>1, EdgesOfGroup, HeadOfGroup

LEMMA LookedKept ==
    ASSUME OrderInv, NEW x \in Frame, Looked(x), Kept, deps' = deps
    PROVE  Looked(x)'
  <1>1. make \in Makefiles /\ DepsType /\ x.file \in Files
    BY DEF OrderInv, TypeInv, TypeOK, DepsType, Frame
  <1>2. Edges(x.file)' = Edges(x.file)
    BY DEF Kept, Edges, Head1
  <1>3. ASSUME NEW d \in Edges(x.file)
        PROVE  /\ HackEdge(d.edge)' = HackEdge(d.edge)
               /\ updated[Head1(d.edge[2])] => updated'[Head1(d.edge[2])']
    <2>1. d \in Dep
      BY <1>1, EdgesType
    <2>2. d.edge[2] \in Files
      BY <2>1 DEF Dep
    <2>3. Head1(d.edge[2]) \in Files
      BY <1>1, <2>2, GroupType
    <2>4. Head1(d.edge[2])' = Head1(d.edge[2]) /\ HackEdge(d.edge)' = HackEdge(d.edge)
      BY DEF Kept, Head1, HackEdge
    <2> QED
      BY <2>3, <2>4 DEF Kept
  <1> QED
    BY <1>2, <1>3 DEF Looked

LEMMA WalkedKept ==
    ASSUME OrderInv, NEW fs \in Seq(Frame), Walked(fs), Kept, deps' = deps,
           UNCHANGED <<goals, at>>
    PROVE  Walked(fs)'
  <1>1. ASSUME NEW k \in 1 .. Len(fs) PROVE Looked(fs[k])'
    <2>1. fs[k] \in Frame /\ Looked(fs[k])
      BY DEF Walked
    <2> QED
      BY <2>1, LookedKept
  <1>2. Head1(goals[at])' = Head1(goals[at])
    BY DEF Kept, Head1
  <1> QED
    BY <1>1, <1>2 DEF Walked

LEMMA WalkedPop ==
    ASSUME NEW fs \in Seq(Frame), fs # <<>>, Walked(fs)
    PROVE  Walked(Tail(fs)) /\ Looked(fs[1]) /\ (Tail(fs) = <<>> => fs[1].file = Head1(goals[at]))
  <1>1. PICK t : t = Tail(fs)
    OBVIOUS
  <1>2. /\ t \in Seq(Frame) /\ Len(t) = Len(fs) - 1 /\ Len(fs) \in Nat \ {0}
        /\ \A k \in 1 .. Len(fs) - 1 : t[k] = fs[k + 1]
    BY <1>1, PoppedFrame
  <1>3. \A k \in 1 .. Len(t) : Looked(t[k])
    BY <1>2 DEF Walked
  <1>4. t # <<>> => t[Len(t)] = fs[Len(fs)]
    BY <1>2
  <1>5. t = <<>> => Len(fs) = 1
    BY <1>2
  <1>6. Looked(fs[1]) /\ fs[Len(fs)].file = Head1(goals[at])
    BY <1>2 DEF Walked
  <1> QED
    BY <1>1, <1>3, <1>4, <1>5, <1>6 DEF Walked

LEMMA WalkedPush ==
    ASSUME NEW fs \in Seq(Frame), Walked(fs), NEW x \in Frame, Looked(x),
           fs = <<>> => x.file = Head1(goals[at])
    PROVE  Walked(<<x>> \o fs)
  <1>1. PICK p : p = <<x>> \o fs
    OBVIOUS
  <1>2. /\ p \in Seq(Frame) /\ Len(p) = Len(fs) + 1 /\ p[1] = x /\ Len(fs) \in Nat
        /\ \A k \in 2 .. Len(p) : p[k] = fs[k - 1]
    BY <1>1, PushedFrame
  <1>3. ASSUME NEW k \in 1 .. Len(p) PROVE Looked(p[k])
    <2>1. CASE k = 1
      BY <1>2, <2>1
    <2>2. CASE k # 1
      BY <1>2, <2>2 DEF Walked
    <2> QED
      BY <2>1, <2>2
  <1>4. p[Len(p)].file = Head1(goals[at])
    <2>1. CASE fs = <<>>
      BY <1>2, <2>1
    <2>2. CASE fs # <<>>
      <3>1. Len(p) \in 2 .. Len(p) /\ Len(p) - 1 = Len(fs)
        BY <1>2, <2>2
      <3> QED
        BY <1>2, <2>2, <3>1 DEF Walked
    <2> QED
      BY <2>1, <2>2
  <1> QED
    BY <1>1, <1>3, <1>4 DEF Walked

LEMMA WalkedReplace ==
    ASSUME NEW fs \in Seq(Frame), fs # <<>>, Walked(fs), NEW x \in Frame, Looked(x),
           x.file = fs[1].file
    PROVE  Walked(<<x>> \o Tail(fs))
  <1>1. Tail(fs) \in Seq(Frame)
    BY PoppedFrame
  <1> QED
    BY <1>1, WalkedPop, WalkedPush

(* The bottom of the stack is the goal's head, so a set that is closed but *)
(* for the innermost activation contains all files that are worked on.     *)
LEMMA StackIn ==
    ASSUME OrderInv, pc \in {"walk", "new_job"}, frames # <<>>, Walked(frames),
           NEW S, \A g \in Range(goals) : Head1(g) \in S,
           \A h \in S \cap Heads : h # Top.file /\ Unmade(h) =>
              \A d \in Edges(h) : HackEdge(d.edge) \/ Head1(d.edge[2]) \in S
    PROVE  \A k \in 1 .. Len(frames) : frames[k].file \in S
  <1>1. /\ frames \in Seq(Frame) /\ Stack /\ Chain(frames) /\ at \in 1 .. Len(goals)
        /\ goals \in Seq(Files) /\ Len(frames) \in Nat \ {0} /\ Top = frames[1]
    BY PoppedFrame DEF OrderInv, TypeInv, TypeOK, Stack, Walking, Top
  <1>2. goals[at] \in Range(goals)
    BY <1>1 DEF Range
  <1>3. Len(frames) \in 1 .. Len(frames) /\ frames[Len(frames)].file \in S
    BY <1>1, <1>2 DEF Walked
  <1>4. ASSUME NEW j \in 2 .. Len(frames), frames[j].file \in S
        PROVE  frames[j - 1].file \in S
    <2>1. PICK d \in Edges(frames[j].file) : ~HackEdge(d.edge) /\ Head1(d.edge[2]) = frames[j - 1].file
      BY AskedEdge
    <2>2. j \in 1 .. Len(frames) /\ 1 \in 1 .. Len(frames) /\ j > 1
      BY <1>1
    <2>3. frames[j].file \in Heads
      BY <1>1, <2>2 DEF Chain, Sees
    <2>4. frames[j].file # Top.file
      BY <1>1, <2>2 DEF Chain
    <2>5. Unmade(frames[j].file)
      BY <1>1, <2>2 DEF Stack, Held
    <2> QED
      BY <1>4, <2>1, <2>3, <2>4, <2>5
  <1> QED
    BY <1>1, <1>3, <1>4, StackDown

(* A set that is closed after a step was closed before it, together with   *)
(* heads that were made, if the goals and the needs stay.                  *)
LEMMA ClosedBefore ==
    ASSUME UNCHANGED <<make, deps>>, NEW S, Closed(S)', NEW T, S \subseteq T,
           \A g \in Range(goals) : g \in Range(goals') \/ Head1(g) \in T,
           \A h \in T \cap Heads : Unmade(h) =>
              /\ h \in S
              /\ Unmade(h)' \/ \A d \in Edges(h) : HackEdge(d.edge) \/ Head1(d.edge[2]) \in T
    PROVE  Closed(T)
  <1>1. /\ Heads' = Heads /\ \A f : Head1(f)' = Head1(f) /\ Edges(f)' = Edges(f)
        /\ \A e : HackEdge(e)' = HackEdge(e)
    BY DEF Heads, Head1, Edges, HackEdge
  <1>2. \A g \in Range(goals') : Head1(g) \in S
    BY <1>1 DEF Closed
  <1>3. \A h \in S \cap Heads : Unmade(h)' =>
           \A d \in Edges(h) : HackEdge(d.edge) \/ Head1(d.edge[2]) \in S
    BY <1>1 DEF Closed
  <1> QED
    BY <1>2, <1>3 DEF Closed

LEMMA QuietFail ==
    ASSUME FailInv, OrderInv', UNCHANGED <<make, deps, goals, status, children, lost>>,
           \A g \in Heads : SameMark(g), {pc, pc'} \cap {"die", "exit"} = {}, Walked(frames)'
    PROVE  FailInv'
  <1>1. /\ Heads' = Heads /\ Running' = Running
        /\ \A f \in Heads : (Unmade(f)' <=> Unmade(f)) /\ (Broken(f)' <=> Broken(f))
    BY DEF Heads, Head1, Unmade, Broken, SameMark, Running
  <1>2. Told' /\ HeadGoals'
    <2>1. Told /\ HeadGoals
      BY DEF FailInv
    <2> QED
      BY <1>1, <2>1 DEF Told, HeadGoals, Head1
  <1>3. ASSUME NEW S \in SUBSET Files, Closed(S)' PROVE Holds(S)'
    <2>1. Closed(S)
      BY <1>1, <1>3, ClosedBefore
    <2>2. Holds(S)
      BY <2>1 DEF FailInv, Reached
    <2> QED
      BY <1>1, <2>2 DEF Holds
  <1>4. Reached'
    BY <1>3 DEF Reached
  <1> QED
    BY <1>2, <1>4 DEF FailInv

LEMMA ReapFail ==
    ASSUME FailInv, OrderInv', NEW f \in Files, NEW r \in {Success, Failed},
           NEW next \in {"more", "new_job", "linear", "die"}, Reap(f, r, next),
           pc \in {"die", "exit"} <=> next = "die"
    PROVE  FailInv'
  <1>1. /\ OrderInv /\ TypeInv /\ Grouped /\ Told /\ HeadGoals
        /\ make \in Makefiles /\ children \in [Files -> Nat]
    BY DEF FailInv, OrderInv, TypeInv, TypeOK
  <1>2. /\ f \in Heads /\ commandState[f] = "running" /\ ~updated[f] /\ Kept
        /\ updated'[f] /\ updateStatus'[f] = r
        /\ \A g \in Files : Head1(g) # f =>
              /\ commandState'[g] = commandState[g] /\ updated'[g] = updated[g]
              /\ updateStatus'[g] = updateStatus[g]
    BY <1>1, ReapMarks
  <1>3. /\ UNCHANGED <<make, deps, goals, at, frames>> /\ children[f] > 0
        /\ children' = [children EXCEPT ![f] = @ - 1]
        /\ lost' = IF r = Failed THEN lost \cup {f} ELSE lost
        /\ IF r = Failed /\ ~make.keepGoing
           THEN pc' = "die" /\ status' = Failed
           ELSE pc' = next /\ UNCHANGED status
    BY DEF Reap, given, walk
  <1>4. f \in Running /\ Running' \subseteq Running
    BY <1>1, <1>3 DEF Running
  <1>5. /\ Heads' = Heads
        /\ \A g \in Heads : g # f =>
              (Unmade(g)' <=> Unmade(g)) /\ (Broken(g)' <=> Broken(g))
        /\ ~Unmade(f) /\ (Broken(f)' <=> r = Failed)
        /\ \A g \in Heads : Broken(g) => Broken(g)'
    <2>1. Heads' = Heads
      BY <1>3 DEF Heads, Head1
    <2>2. \A g \in Heads : g \in Files /\ Head1(g) = g
      BY DEF Heads
    <2>3. Success # Failed
      BY DEF Success, Failed
    <2> QED
      BY <1>2, <2>1, <2>2, <2>3 DEF Unmade, Broken
  <1>6. Told'
    BY <1>1, <1>3, <1>5 DEF Told
  <1>7. HeadGoals'
    BY <1>1, <1>3 DEF HeadGoals, Head1
  (* While something runs the goal chain is not empty.                     *)
  <1>8. goals # <<>>
    <2>1. CASE pc \in {"die", "exit"}
      BY <1>4, <2>1 DEF FailInv
    <2>2. CASE pc \notin {"die", "exit"} /\ goals = <<>>
      <3>1. Range(goals) = {}
        BY <2>2 DEF Range
      <3>2. Closed({})
        BY <3>1 DEF Closed
      <3>3. Holds({})
        BY <2>2, <3>2 DEF FailInv, Reached
      <3> QED
        BY <1>4, <3>3 DEF Holds
    <2> QED
      BY <2>1, <2>2
  <1>9. CASE pc' \in {"die", "exit"}
    BY <1>3, <1>6, <1>7, <1>8, <1>9 DEF FailInv
  <1>10. CASE pc' \notin {"die", "exit"}
    <2>1. /\ pc \notin {"die", "exit"} /\ (r = Failed => make.keepGoing) /\ UNCHANGED status
          /\ Walked(frames) /\ Reached /\ (lost # {} => make.keepGoing) /\ frames \in Seq(Frame)
      BY <1>1, <1>3, <1>10 DEF FailInv, TypeInv, TypeOK
    <2>2. lost' # {} => make'.keepGoing
      BY <1>3, <2>1
    <2>3. Walked(frames)'
      <3>1. PICK fs : fs = frames
        OBVIOUS
      <3>2. Walked(fs)'
        BY <1>1, <1>2, <1>3, <2>1, <3>1, WalkedKept
      <3> QED
        BY <1>3, <3>1, <3>2
    <2>4. ASSUME NEW S \in SUBSET Files, Closed(S)' PROVE Holds(S)'
      <3>1. Closed(S)
        BY <1>3, <1>5, <2>4, ClosedBefore
      <3>2. Holds(S)
        BY <2>1, <3>1 DEF Reached
      <3>3. f \in S \cap Heads /\ Running' \subseteq S
        BY <1>2, <1>4, <3>2 DEF Holds
      <3>4. CASE r = Failed
        BY <1>5, <3>3, <3>4 DEF Holds
      <3>5. CASE r # Failed
        BY <1>3, <1>5, <2>1, <3>2, <3>3, <3>5 DEF Holds
      <3> QED
        BY <3>4, <3>5
    <2>5. Reached'
      BY <2>4 DEF Reached
    <2> QED
      BY <1>6, <1>7, <1>10, <2>2, <2>3, <2>5 DEF FailInv
  <1> QED
    BY <1>9, <1>10

(* An activation settles its file.                                         *)
LEMMA SettleReached ==
    ASSUME FailInv, NEW f \in Files, Decide(f), ~Top.running, UNCHANGED <<make, deps, goals, children>>,
           Kept, OthersSame(f), \A g \in Files : Head1(g) # f => updateStatus'[g] = updateStatus[g],
           updated'[f], Top.status # Success => updateStatus'[f] # Success,
           status = Failed => status' = Failed,
           lost' # lost => updateStatus'[f] # Success
    PROVE  Reached'
  <1>1. /\ OrderInv /\ Reached /\ Walked(frames) /\ pc = "walk"
        /\ make \in Makefiles /\ DepsType
    BY DEF FailInv, Decide, OrderInv, TypeInv, TypeOK, DepsType
  <1>2. /\ f \in Heads /\ f = Top.file /\ Top.left = {} /\ frames # <<>> /\ Unmade(f) /\ Top = frames[1]
        /\ 1 \in 1 .. Len(frames)
        /\ \A d \in Edges(f) :
              HackEdge(d.edge) \/ Done(Head1(d.edge[2])) \/ Top.status # Success
    BY <1>1, AtDecision
  <1>3. \A d \in Edges(f) : HackEdge(d.edge) \/ updated[Head1(d.edge[2])]
    BY <1>1, <1>2 DEF Walked, Looked
  <1>4. /\ Heads' = Heads /\ Heads \subseteq Files /\ \A h \in Heads : Head1(h) = h
        /\ \A d \in Edges(f) : Head1(d.edge[2]) \in Heads
    BY <1>1, <1>2, EdgeHeads DEF Heads, Head1
  <1>5. ASSUME NEW h \in Heads, h # f PROVE (Unmade(h)' <=> Unmade(h)) /\ (Broken(h) <=> Broken(h)')
    BY <1>4, <1>5 DEF Unmade, Broken, OthersSame
  <1>6. Broken(f)' <=> updateStatus'[f] # Success
    BY DEF Broken
  <1>7. ~Broken(f)
    BY <1>2 DEF Broken, Unmade
  <1> SUFFICES ASSUME NEW S \in SUBSET Files, Closed(S)' PROVE Holds(S)'
    BY DEF Reached
  (* What is updated does not run.                                         *)
  <1>8. Running \subseteq S
    <2>1. PICK T : T = S \cup {h \in Heads : updated[h]}
      OBVIOUS
    <2>2. Closed(T)
      <3>1. ASSUME NEW h \in T \cap Heads, Unmade(h)
            PROVE  h \in S /\ (\/ Unmade(h)'
                               \/ \A d \in Edges(h) : HackEdge(d.edge) \/ Head1(d.edge[2]) \in T)
        <4>1. h \in S
          BY <2>1, <3>1 DEF Unmade
        <4>2. CASE h = f
          BY <1>3, <1>4, <2>1, <4>1, <4>2
        <4>3. CASE h # f
          BY <1>5, <3>1, <4>1, <4>3
        <4> QED
          BY <4>2, <4>3
      <3>2. S \subseteq T /\ \A g \in Range(goals) : g \in Range(goals')
        BY <2>1
      <3> QED
        BY <3>1, <3>2, ClosedBefore
    <2>3. Running \subseteq T
      <3>1. T \in SUBSET Files
        BY <1>4, <2>1
      <3> QED
        BY <1>1, <2>2, <3>1 DEF Reached, Holds
    <2>4. \A h \in Running : ~updated[h]
      BY <1>1, RunningHeads
    <2> QED
      BY <2>1, <2>3, <2>4
  (* What is done has not failed.                                          *)
  <1>9. CASE updateStatus'[f] = Success
    <2>1. PICK T : T = S \cup {h \in Heads : Done(h)}
      OBVIOUS
    <2>2. Closed(T)
      <3>1. ASSUME NEW h \in T \cap Heads, Unmade(h)
            PROVE  h \in S /\ (\/ Unmade(h)'
                               \/ \A d \in Edges(h) : HackEdge(d.edge) \/ Head1(d.edge[2]) \in T)
        <4>1. h \in S
          BY <2>1, <3>1 DEF Unmade, Done
        <4>2. CASE h = f
          BY <1>2, <1>4, <1>9, <2>1, <4>1, <4>2
        <4>3. CASE h # f
          BY <1>5, <3>1, <4>1, <4>3
        <4> QED
          BY <4>2, <4>3
      <3>2. S \subseteq T /\ \A g \in Range(goals) : g \in Range(goals')
        BY <2>1
      <3> QED
        BY <3>1, <3>2, ClosedBefore
    <2>3. lost # {} => status = Failed \/ \E h \in T \cap Heads : Broken(h)
      <3>1. T \in SUBSET Files
        BY <1>4, <2>1
      <3> QED
        BY <1>1, <2>2, <3>1 DEF Reached, Holds
    <2>4. \A h \in Heads : Broken(h) => ~Done(h)
      BY DEF Broken, Done
    <2>5. lost' # {} => status' = Failed \/ \E h \in S \cap Heads : Broken(h) /\ h # f
      BY <1>7, <1>9, <2>1, <2>3, <2>4
    <2> QED
      BY <1>4, <1>5, <1>8, <2>5 DEF Holds, Running
  <1>10. CASE updateStatus'[f] # Success
    <2>1. \A g \in Range(goals) : Head1(g) \in S
      BY DEF Closed, Head1
    <2>2. \A h \in S \cap Heads : h # Top.file /\ Unmade(h) =>
             \A d \in Edges(h) : HackEdge(d.edge) \/ Head1(d.edge[2]) \in S
      <3>1. \A h \in S \cap Heads : Unmade(h)' =>
               \A d \in Edges(h) : HackEdge(d.edge) \/ Head1(d.edge[2]) \in S
        BY <1>4 DEF Closed, Edges, HackEdge, Head1
      <3> QED
        BY <1>2, <1>5, <3>1
    <2>3. frames[1].file \in S
      BY <1>1, <1>2, <2>1, <2>2, StackIn
    <2> QED
      BY <1>2, <1>4, <1>6, <1>8, <1>10, <2>3 DEF Holds, Running
  <1> QED
    BY <1>9, <1>10

LEMMA SettleFail ==
    ASSUME FailInv, OrderInv', NEW f \in Files, Decide(f), ~Top.running,
           UNCHANGED <<make, deps, goals, at, children>>,
           Kept, OthersSame(f), \A g \in Files : Head1(g) # f => updateStatus'[g] = updateStatus[g],
           updated'[f], Top.status # Success => updateStatus'[f] # Success,
           lost' = lost \/ updateStatus'[f] # Success, lost # {} => lost' # {},
           updateStatus'[f] # Success => Top.status # Success \/ lost' # {},
           \/ /\ frames' = Tail(frames) /\ status' = status /\ pc' = "back"
              /\ lost' # lost => make.keepGoing
           \/ pc' = "die" /\ status' = Failed /\ lost' # {}
    PROVE  FailInv'
  <1>1. /\ OrderInv /\ Walked(frames) /\ Told /\ HeadGoals /\ pc = "walk" /\ frames \in Seq(Frame)
        /\ (lost # {} => make.keepGoing)
    BY DEF FailInv, OrderInv, TypeInv, TypeOK, Decide
  <1>2. /\ f \in Heads /\ f = Top.file /\ frames # <<>> /\ ~updated[f]
        /\ Top.status # Success =>
              \E d \in Edges(f) : ~HackEdge(d.edge) /\ Broken(Head1(d.edge[2]))
    BY <1>1, AtDecision DEF Unmade
  <1>3. /\ Heads' = Heads /\ \A h \in Heads : h \in Files /\ Head1(h) = h
        /\ \A d \in Edges(f) : Head1(d.edge[2]) \in Heads
    BY <1>1, <1>2, EdgeHeads DEF Heads, Head1
  <1>4. updateStatus'[f] # Success => lost' # {}
    <2>1. ASSUME Top.status # Success PROVE lost # {}
      BY <1>1, <1>2, <1>3, <2>1 DEF Told
    <2> QED
      BY <2>1
  <1>5. Told'
    <2>1. CASE status' = Failed /\ pc' = "die"
      BY <2>1 DEF Told
    <2>2. CASE status' = status
      <3>1. ASSUME NEW h \in Heads, Broken(h)' PROVE lost' # {}
        <4>1. CASE h = f
          BY <1>4, <3>1, <4>1 DEF Broken
        <4>2. CASE h # f
          <5>1. Broken(h)
            BY <1>3, <3>1, <4>2 DEF Broken, OthersSame
          <5> QED
            BY <1>1, <5>1 DEF Told
        <4> QED
          BY <4>1, <4>2
      <3> QED
        BY <1>1, <1>3, <2>2, <3>1 DEF Told
    <2> QED
      BY <2>1, <2>2
  <1>6. HeadGoals'
    BY <1>1 DEF HeadGoals, Head1
  <1>7. CASE pc' = "die"
    <2>1. at \in 1 .. Len(goals)
      BY <1>1 DEF OrderInv, TypeInv, Walking
    <2>2. goals # <<>>
      BY <2>1
    <2> QED
      BY <1>5, <1>6, <1>7, <2>2 DEF FailInv
  <1>8. CASE /\ frames' = Tail(frames) /\ status' = status /\ pc' = "back"
             /\ lost' # lost => make.keepGoing
    <2>1. Reached'
      BY <1>8, SettleReached
    <2>2. Walked(frames)'
      <3>1. PICK fs : fs = Tail(frames)
        OBVIOUS
      <3>2. fs \in Seq(Frame) /\ Walked(fs)
        BY <1>1, <1>2, <3>1, PoppedFrame, WalkedPop
      <3>3. Walked(fs)'
        BY <1>1, <3>2, WalkedKept
      <3> QED
        BY <1>8, <3>1, <3>3
    <2>3. lost' # {} => make'.keepGoing
      BY <1>1, <1>8 DEF Kept
    <2> QED
      BY <1>5, <1>6, <1>8, <2>1, <2>2, <2>3 DEF FailInv
  <1> QED
    BY <1>7, <1>8

LEMMA DecisionFail ==
    ASSUME Orderly, FailInv, OrderInv', NEW f \in Files,
           GiveUp(f) \/ NoNeedToRemake(f) \/ RunEmptyRecipe(f) \/ RemakeWithoutRecipe(f)
    PROVE  FailInv'
  <1>1. /\ Decide(f) /\ ~Top.running /\ UNCHANGED <<make, deps, goals, at, children>> /\ OrderInv
    BY DEF GiveUp, NoNeedToRemake, RunEmptyRecipe, RemakeWithoutRecipe, Decided, given, procs,
           chain, FailInv
  <1>2. /\ Head1(f) = f /\ Top \in Frame /\ ~updated[f] /\ make \in Makefiles /\ Grouped
    BY <1>1, AtDecision DEF Unmade, OrderInv, TypeInv, TypeOK, Decide
  <1>3. Statuses = {Success, None, Failed} /\ Success # None /\ Failed # Success /\ Failed # None
    BY DEF Statuses, Success, None, Failed
  <1>4. CASE GiveUp(f)
    <2>1. PICK s : s = IF Top.status = None THEN Failed ELSE Top.status
      OBVIOUS
    <2>2. s \in Statuses /\ s \notin {Success, None} /\ NoticeFinished(f, s, FALSE, disk)
      BY <1>2, <1>3, <1>4, <2>1 DEF GiveUp, Frame
    <2>3. /\ frames' = Tail(frames) /\ pc' = "back" /\ status' = status /\ lost' = lost
          /\ Top.status # Success
      BY <1>4 DEF GiveUp, Return, chain, procs
    <2>4. Kept /\ OthersSame(f) /\ updated'[f] /\ updateStatus'[f] # Success
          /\ \A g \in Files : Head1(g) # f => updateStatus'[g] = updateStatus[g]
      BY <1>1, <2>2, SettledMarks
    <2> QED
      BY <1>1, <2>3, <2>4, SettleFail
  <1>5. CASE NoNeedToRemake(f)
    <2>1. updateStatus[f] = None
      BY <1>2 DEF Grouped
    <2>2. NoticeFinished(f, None, FALSE, disk) /\ Top.status = Success
      BY <1>5, <2>1 DEF NoNeedToRemake, Decided
    <2>3. /\ frames' = Tail(frames) /\ pc' = "back" /\ status' = status /\ lost' = lost
      BY <1>5 DEF NoNeedToRemake, Return, chain, procs
    <2>4. Kept /\ OthersSame(f) /\ updated'[f] /\ updateStatus'[f] = Success
          /\ \A g \in Files : Head1(g) # f => updateStatus'[g] = updateStatus[g]
      BY <1>1, <1>3, <2>2, SettledMarks
    <2> QED
      BY <1>1, <2>2, <2>3, <2>4, SettleFail
  <1>6. CASE RunEmptyRecipe(f)
    <2>1. NoticeFinished(f, Success, TRUE, disk) /\ Top.status = Success
      BY <1>6 DEF RunEmptyRecipe, Decided
    <2>2. /\ frames' = Tail(frames) /\ pc' = "back" /\ status' = status /\ lost' = lost
      BY <1>6 DEF RunEmptyRecipe, Return, chain, procs
    <2>3. Kept /\ OthersSame(f) /\ updated'[f] /\ updateStatus'[f] = Success
          /\ \A g \in Files : Head1(g) # f => updateStatus'[g] = updateStatus[g]
      BY <1>1, <1>3, <2>1, SettledMarks
    <2> QED
      BY <1>1, <2>1, <2>2, <2>3, SettleFail
  <1>7. CASE RemakeWithoutRecipe(f)
    <2>1. Top.status = Success /\ make.cmds[f] = "none"
      BY <1>7 DEF RemakeWithoutRecipe, Decided
    <2>2. Group(f) = {f}
      BY <1>2, <2>1, SingleWithoutRecipe
    <2>3. CASE /\ NoticeFinished(f, Success, FALSE, disk) /\ Return(Success)
               /\ UNCHANGED <<status, lost>>
      <3>1. /\ frames' = Tail(frames) /\ pc' = "back" /\ status' = status /\ lost' = lost
        BY <2>3 DEF Return
      <3>2. Kept /\ OthersSame(f) /\ updated'[f] /\ updateStatus'[f] = Success
            /\ \A g \in Files : Head1(g) # f => updateStatus'[g] = updateStatus[g]
        BY <1>1, <1>3, <2>2, <2>3, SettledMarks
      <3> QED
        BY <1>1, <2>1, <3>1, <3>2, SettleFail
    <2>4. CASE NoticeFinished(f, Failed, FALSE, disk) /\ lost' = lost \cup {f}
      <3>1. Kept /\ OthersSame(f) /\ updated'[f] /\ updateStatus'[f] # Success
            /\ \A g \in Files : Head1(g) # f => updateStatus'[g] = updateStatus[g]
        BY <1>1, <1>3, <2>2, <2>4, SettledMarks
      <3>2. \/ /\ frames' = Tail(frames) /\ status' = status /\ pc' = "back" /\ make.keepGoing
            \/ pc' = "die" /\ status' = Failed
        <4>1. f \notin make.phony \cup make.isTarget
          <5>1. CASE f \in make.phony \cup make.isTarget
            <6>1. NoticeFinished(f, Success, FALSE, disk)
              BY <1>7, <5>1 DEF RemakeWithoutRecipe
            <6>2. updateStatus'[f] = Success
              BY <1>1, <1>3, <2>2, <6>1, SettledMarks
            <6> QED
              BY <3>1, <6>2
          <5> QED
            BY <5>1
        <4> QED
          BY <1>7, <4>1 DEF RemakeWithoutRecipe, Return
      <3>3. lost' # {} /\ lost' = lost \cup {f}
        BY <2>4
      <3> QED
        BY <1>1, <2>1, <3>1, <3>2, <3>3, SettleFail
    <2> QED
      BY <1>7, <2>3, <2>4 DEF RemakeWithoutRecipe
  <1> QED
    BY <1>4, <1>5, <1>6, <1>7

(* A recipe is started.                                                    *)
LEMMA NewJobFail ==
    ASSUME FailInv, OrderInv', NEW f \in Files, NewJob(f)
    PROVE  FailInv'
  <1>1. /\ pc = "new_job" /\ f = Top.file /\ OrderInv
        /\ UNCHANGED <<make, deps, goals, at, status, lost, updateStatus, updated>>
        /\ commandState' = StateOfGroup(f, "running")
        /\ children' = [children EXCEPT ![f] = @ + 1]
        /\ (pc' = "linear" /\ UNCHANGED frames) \/ (pc' = "back" /\ frames' = Tail(frames))
    BY DEF NewJob, given, chain, Return, FailInv
  <1>2. ~Top.running /\ Top.status = Success
    BY <1>1 DEF OrderInv, Stack
  <1>3. /\ f \in Heads /\ Unmade(f) /\ children[f] = 0 /\ make \in Makefiles /\ DepsType
        /\ children \in [Files -> Nat] /\ frames # <<>> /\ Top = frames[1] /\ 1 \in 1 .. Len(frames)
        /\ \A d \in Edges(f) : HackEdge(d.edge) \/ Done(Head1(d.edge[2]))
    BY <1>1, <1>2, AtDecision DEF OrderInv, TypeInv, TypeOK, DepsType
  <1>4. children' = [children EXCEPT ![f] = 1]
    BY <1>1, <1>3
  <1>5. Kept /\ OthersSame(f)
    BY <1>1, <1>3, <1>4, StateMarks
  <1>6. /\ Told /\ HeadGoals /\ Walked(frames) /\ Reached /\ (lost # {} => make.keepGoing)
        /\ frames \in Seq(Frame)
    BY <1>1 DEF FailInv, OrderInv, TypeInv, TypeOK
  <1>7. /\ Heads' = Heads /\ Heads \subseteq Files /\ \A h \in Heads : Head1(h) = h
        /\ \A d \in Edges(f) : Head1(d.edge[2]) \in Heads
    BY <1>1, <1>3, EdgeHeads DEF Heads, Head1
  <1>8. /\ \A h \in Heads : h # f => (Unmade(h)' <=> Unmade(h))
        /\ \A h \in Heads : Broken(h)' <=> Broken(h)
    BY <1>1, <1>5, <1>7 DEF Unmade, Broken, OthersSame
  <1>9. Told' /\ HeadGoals'
    BY <1>1, <1>6, <1>7, <1>8 DEF Told, HeadGoals, Head1
  <1>10. Walked(frames)'
    <2>1. PICK fs : fs = frames'
      OBVIOUS
    <2>2. fs \in Seq(Frame) /\ Walked(fs)
      <3>1. Tail(frames) \in Seq(Frame) /\ Walked(Tail(frames))
        BY <1>3, <1>6, PoppedFrame, WalkedPop
      <3> QED
        BY <1>1, <1>6, <2>1, <3>1
    <2>3. Walked(fs)'
      BY <1>1, <1>5, <2>2, WalkedKept
    <2> QED
      BY <2>1, <2>3
  <1>11. ASSUME NEW S \in SUBSET Files, Closed(S)' PROVE Holds(S)'
    <2>1. PICK T : T = S \cup {h \in Heads : Done(h)}
      OBVIOUS
    <2>2. Closed(T)
      <3>1. ASSUME NEW h \in T \cap Heads, Unmade(h)
            PROVE  h \in S /\ (\/ Unmade(h)'
                               \/ \A d \in Edges(h) : HackEdge(d.edge) \/ Head1(d.edge[2]) \in T)
        <4>1. h \in S
          BY <2>1, <3>1 DEF Unmade, Done
        <4>2. CASE h = f
          BY <1>3, <1>7, <2>1, <4>1, <4>2
        <4>3. CASE h # f
          BY <1>8, <3>1, <4>1, <4>3
        <4> QED
          BY <4>2, <4>3
      <3>2. S \subseteq T /\ \A g \in Range(goals) : g \in Range(goals')
        BY <1>1, <2>1
      <3> QED
        BY <1>1, <1>11, <3>1, <3>2, ClosedBefore
    <2>3. Holds(T)
      <3>1. T \in SUBSET Files
        BY <1>7, <2>1
      <3> QED
        BY <1>6, <2>2, <3>1 DEF Reached
    <2>4. \A g \in Range(goals) : Head1(g) \in S
      BY <1>1, <1>11 DEF Closed, Head1
    <2>5. \A h \in S \cap Heads : h # Top.file /\ Unmade(h) =>
             \A d \in Edges(h) : HackEdge(d.edge) \/ Head1(d.edge[2]) \in S
      <3>1. \A h \in S \cap Heads : Unmade(h)' =>
               \A d \in Edges(h) : HackEdge(d.edge) \/ Head1(d.edge[2]) \in S
        BY <1>1, <1>7, <1>11 DEF Closed, Edges, HackEdge, Head1
      <3> QED
        BY <1>1, <1>8, <3>1
    <2>6. f \in S
      BY <1>1, <1>3, <1>6, <2>4, <2>5, StackIn
    <2>7. Running' \subseteq S
      <3>1. Running' \subseteq Running \cup {f}
        BY <1>3, <1>4 DEF Running
      <3>2. \A h \in Running : ~Done(h)
        BY <1>1, RunningHeads DEF Done
      <3> QED
        BY <2>1, <2>3, <2>6, <3>1, <3>2 DEF Holds
    <2>8. \A h \in Heads : Broken(h) => ~Done(h)
      BY DEF Broken, Done
    <2>9. lost # {} => status = Failed \/ \E h \in S \cap Heads : Broken(h)
      BY <2>1, <2>3, <2>8 DEF Holds
    <2> QED
      BY <1>1, <1>7, <1>8, <2>7, <2>9 DEF Holds
  <1>12. Reached'
    BY <1>11 DEF Reached
  <1> QED
    BY <1>1, <1>6, <1>9, <1>10, <1>12 DEF FailInv

(* A goal leaves the chain.                                                *)
LEMMA GoalBackFail ==
    ASSUME FailInv, OrderInv', GoalBack
    PROVE  FailInv'
  <1>1. /\ OrderInv /\ Grouped /\ Told /\ HeadGoals /\ Reached /\ (lost # {} => make.keepGoing)
        /\ pc = "back" /\ pc' = "goal" /\ frames = <<>> /\ frames' = <<>>
        /\ UNCHANGED <<make, deps, commandState, updateStatus, updated, children, lost>>
        /\ make \in Makefiles /\ goals \in Seq(Files) /\ at \in 1 .. Len(goals)
        /\ updateStatus \in [Files -> Statuses]
    BY DEF GoalBack, FailInv, OrderInv, TypeInv, TypeOK, Walking, given, marks, walk, procs
  <1>2. PICK g \in Files : g = goals[at]
    BY <1>1
  <1>3. /\ status' = IF (ret # Success \/ updated[g]) /\ status # Failed /\ updateStatus[g] # Success
                     THEN updateStatus[g] ELSE status
        /\ IF updated[g]
           THEN goals' = SubSeq(goals, 1, at - 1) \o SubSeq(goals, at + 1, Len(goals))
           ELSE goals' = goals
    BY <1>2 DEF GoalBack
  <1>4. PICK h : h = Head1(g)
    OBVIOUS
  <1>5. /\ h \in Heads /\ h \in Files /\ Heads' = Heads /\ Heads \subseteq Files
        /\ \A f : Head1(f)' = Head1(f)
    BY <1>1, <1>4, HeadOfGroup DEF Heads, Head1
  <1>6. /\ updated[g] = updated[h] /\ (~updated[g] => updateStatus[g] = None)
        /\ updated[g] => \/ updateStatus[g] = updateStatus[h]
                         \/ updateStatus[g] = None /\ updateStatus[h] = Failed
    BY <1>1, <1>4 DEF Grouped
  <1>7. \A f \in Heads : (Unmade(f)' <=> Unmade(f)) /\ (Broken(f)' <=> Broken(f))
    BY <1>1 DEF Unmade, Broken
  <1>8. /\ Range(goals') \subseteq Range(goals)
        /\ \A f \in Range(goals) : f \in Range(goals') \/ (f = g /\ updated[g])
    <2>1. CASE updated[g]
      <3>1. /\ Range(goals') \subseteq Range(goals)
            /\ \A f \in Range(goals) : f \in Range(goals') \/ f = goals[at]
        BY <1>1, <1>3, <2>1, CutElements
      <3> QED
        BY <1>2, <2>1, <3>1
    <2>2. CASE ~updated[g]
      BY <1>3, <2>2
    <2> QED
      BY <2>1, <2>2
  <1>9. Told'
    <2>1. CASE status' = status
      BY <1>1, <1>5, <1>7, <2>1 DEF Told
    <2>2. CASE status' # status
      <3>1. status' = updateStatus[g]
        BY <1>3, <2>2
      <3>2. updateStatus[g] = Failed => Broken(h)
        BY <1>6 DEF Broken, Success, None, Failed
      <3> QED
        BY <1>1, <1>5, <1>7, <3>1, <3>2 DEF Told
    <2> QED
      BY <2>1, <2>2
  <1>10. HeadGoals'
    BY <1>1, <1>5, <1>8 DEF HeadGoals
  <1>11. ASSUME NEW S \in SUBSET Files, Closed(S)' PROVE Holds(S)'
    <2>1. Running \subseteq S
      <3>1. PICK T : T = S \cup {f \in Heads : updated[f]}
        OBVIOUS
      <3>2. \A f \in Range(goals) : f \in Range(goals') \/ Head1(f) \in T
        BY <1>4, <1>5, <1>6, <1>8, <3>1
      <3>3. \A f \in T \cap Heads : Unmade(f) => f \in S /\ Unmade(f)'
        BY <1>7, <3>1 DEF Unmade
      <3>4. Closed(T)
        BY <1>1, <1>11, <3>1, <3>2, <3>3, ClosedBefore
      <3>5. T \in SUBSET Files
        BY <1>5, <3>1
      <3>6. Running \subseteq T
        BY <1>1, <3>4, <3>5 DEF Reached, Holds
      <3> QED
        BY <1>1, <3>1, <3>6, RunningHeads
    <2>2. ASSUME lost # {}, status' # Failed PROVE \E f \in S \cap Heads : Broken(f)
      <3>1. status # Failed /\ (updated[g] => updateStatus[g] # Failed)
        BY <1>3, <2>2 DEF Success, Failed
      <3>2. updated[g] => Done(h)
        <4>1. h = g
          <5>1. goals[at] \in Range(goals)
            BY <1>1 DEF Range
          <5> QED
            BY <1>1, <1>2, <1>4, <2>2, <5>1 DEF HeadGoals
        <4>2. updated[g] => updateStatus[g] # None
          BY <1>1, <4>1, <1>4 DEF Grouped
        <4>3. updateStatus[g] \in {Success, None, Failed}
          BY <1>1 DEF Statuses
        <4> QED
          BY <3>1, <4>1, <4>2, <4>3 DEF Done
      <3>3. PICK T : T = S \cup {f \in Heads : Done(f)}
        OBVIOUS
      <3>4. \A f \in Range(goals) : f \in Range(goals') \/ Head1(f) \in T
        BY <1>4, <1>5, <1>8, <3>2, <3>3
      <3>5. \A f \in T \cap Heads : Unmade(f) => f \in S /\ Unmade(f)'
        BY <1>7, <3>3 DEF Unmade, Done
      <3>6. Closed(T)
        BY <1>1, <1>11, <3>3, <3>4, <3>5, ClosedBefore
      <3>7. T \in SUBSET Files
        BY <1>5, <3>3
      <3>8. \E f \in T \cap Heads : Broken(f)
        BY <1>1, <2>2, <3>1, <3>6, <3>7 DEF Reached, Holds
      <3> QED
        BY <3>3, <3>8 DEF Broken, Done
    <2>3. Running' = Running
      BY <1>1 DEF Running
    <2> QED
      BY <1>1, <1>5, <1>7, <2>1, <2>2, <2>3 DEF Holds
  <1>12. Reached'
    BY <1>11 DEF Reached
  <1>13. Walked(frames)'
    BY <1>1 DEF Walked
  <1> QED
    BY <1>1, <1>9, <1>10, <1>12, <1>13 DEF FailInv

(* A circular prerequisite is dropped.                                     *)
LEMMA CircularFail ==
    ASSUME FailInv, OrderInv', CircularDropped
    PROVE  FailInv'
  <1>1. /\ pc = "walk" /\ pc' = "walk" /\ frames # <<>> /\ Top.left # {} /\ Prereq \in updating
        /\ frames' = <<[Top EXCEPT !.left = @ \ {Current}]>> \o Tail(frames)
        /\ deps' = IF HackEdge(Current.edge) THEN deps
                   ELSE [deps EXCEPT ![Owner] = Restrict(@, DOMAIN @ \ {Current.nth[2]})]
        /\ UNCHANGED <<make, commandState, updateStatus, updated, children, goals, at, status, lost>>
        /\ OrderInv /\ Told /\ HeadGoals /\ Reached /\ Walked(frames) /\ (lost # {} => make.keepGoing)
    BY DEF CircularDropped, NextPrereq, AtPrereq, FailInv, OrderInv, TypeInv, TypeOK, given, chain,
           marks, procs
  <1>2. /\ Top \in Frame /\ Top = frames[1] /\ 1 \in 1 .. Len(frames) /\ Top.file \in Heads
        /\ Current \in Edges(Top.file) /\ Current.edge = <<Owner, Prereq>>
        /\ Owner \in Files /\ Prereq \in Files /\ Head1(Owner) = Top.file
    BY <1>1, CurrentEdge
  <1>3. /\ make \in Makefiles /\ DepsType /\ frames \in Seq(Frame) /\ Chain(frames)
    BY <1>1 DEF OrderInv, TypeInv, TypeOK, DepsType, Stack
  <1>4. ASSUME NEW h \in Heads
        PROVE  Edges(h)' = IF HackEdge(Current.edge) THEN Edges(h) ELSE Edges(h) \ {Current}
    <2>1. CASE HackEdge(Current.edge)
      BY <1>1, <2>1 DEF Edges
    <2>2. CASE ~HackEdge(Current.edge)
      BY <1>1, <2>2, EdgesDropped
    <2> QED
      BY <2>1, <2>2
  <1>5. ASSUME NEW h \in Heads, h # Top.file PROVE Current \notin Edges(h)
    <2>1. \A d \in Edges(h) : Head1(d.edge[1]) = h
      BY <1>3, EdgesOfGroup
    <2> QED
      BY <1>2, <1>5, <2>1 DEF Owner
  <1>6. /\ Heads' = Heads /\ Running' = Running /\ \A f : Head1(f)' = Head1(f)
        /\ \A e : HackEdge(e)' = HackEdge(e)
        /\ \A f : Unmade(f)' = Unmade(f) /\ Broken(f)' = Broken(f)
    BY <1>1 DEF Heads, Running, Head1, HackEdge, Unmade, Broken
  <1>7. Told' /\ HeadGoals'
    BY <1>1, <1>6 DEF Told, HeadGoals
  <1>8. PICK x : x = [Top EXCEPT !.left = @ \ {Current}]
    OBVIOUS
  <1>9. x \in Frame /\ x.file = Top.file /\ x.left = Top.left \ {Current} /\ x.running = Top.running
    BY <1>2, <1>8 DEF Frame
  <1>10. PICK b : b = <<x>> \o Tail(frames)
    OBVIOUS
  <1>11. /\ b \in Seq(Frame) /\ Len(b) = Len(frames) /\ b[1] = x /\ frames' = b
         /\ \A k \in 2 .. Len(frames) : b[k] = frames[k]
    BY <1>1, <1>3, <1>8, <1>9, <1>10, ReplacedFrame
  <1>12. Walked(frames)'
    <2>1. ASSUME NEW k \in 1 .. Len(b)
          PROVE  /\ b[k].file = frames[k].file
                 /\ \A d \in Edges(b[k].file)' \ b[k].left :
                       HackEdge(d.edge) \/ updated[Head1(d.edge[2])] \/ b[k].running
      <3>1. k \in 1 .. Len(frames) /\ Looked(frames[k]) /\ frames[k].file \in Heads
        BY <1>1, <1>3, <1>11 DEF Walked, Chain, Sees
      <3>2. CASE k = 1
        BY <1>2, <1>4, <1>9, <1>11, <3>1, <3>2 DEF Looked
      <3>3. CASE k # 1
        <4>1. b[k] = frames[k]
          BY <1>11, <3>3
        <4>2. frames[k].file # Top.file
          BY <1>2, <1>3, <3>1, <3>3 DEF Chain
        <4>3. Edges(b[k].file)' = Edges(b[k].file)
          BY <1>4, <1>5, <3>1, <4>1, <4>2
        <4> QED
          BY <3>1, <4>1, <4>3 DEF Looked
      <3> QED
        BY <3>2, <3>3
    <2>2. ASSUME NEW k \in 1 .. Len(b) PROVE Looked(b[k])'
      BY <1>1, <1>6, <2>1 DEF Looked
    <2>3. b # <<>> => b[Len(b)].file = Head1(goals[at])
      <3>1. Len(b) \in 1 .. Len(b)
        BY <1>1, <1>3, <1>11
      <3> QED
        BY <1>1, <1>11, <2>1, <3>1 DEF Walked
    <2>4. Walked(b)'
      BY <1>1, <1>6, <2>2, <2>3 DEF Walked
    <2> QED
      BY <1>11, <2>4
  <1>13. ASSUME NEW S \in SUBSET Files, Closed(S)' PROVE Holds(S)'
    <2>1. \A g \in Range(goals) : Head1(g) \in S
      BY <1>1, <1>6, <1>13 DEF Closed
    <2>2. ASSUME NEW h \in S \cap Heads, Unmade(h), NEW d \in Edges(h), d # Current
          PROVE  HackEdge(d.edge) \/ Head1(d.edge[2]) \in S
      <3>1. d \in Edges(h)'
        BY <1>4, <2>2
      <3> QED
        BY <1>6, <1>13, <2>2, <3>1 DEF Closed
    <2>3. \A h \in S \cap Heads : h # Top.file /\ Unmade(h) =>
             \A d \in Edges(h) : HackEdge(d.edge) \/ Head1(d.edge[2]) \in S
      BY <1>5, <2>2
    <2>4. \A k \in 1 .. Len(frames) : frames[k].file \in S
      BY <1>1, <2>1, <2>3, StackIn
    <2>5. Head1(Current.edge[2]) \in S
      <3>1. \E k \in 1 .. Len(frames) : Head1(Prereq) = frames[k].file
        BY <1>1, DroppedOnStack
      <3> QED
        BY <2>4, <3>1 DEF Prereq
    <2>6. Closed(S)
      BY <2>1, <2>2, <2>5 DEF Closed
    <2>7. Holds(S)
      BY <1>1, <2>6 DEF Reached
    <2> QED
      BY <1>1, <1>6, <2>7 DEF Holds
  <1>14. Reached'
    BY <1>13 DEF Reached
  <1> QED
    BY <1>1, <1>7, <1>12, <1>14 DEF FailInv

(* A prerequisite, or a goal, is looked at.                                *)
LEMMA NewFrameLooked ==
    ASSUME NEW f
    PROVE  Looked(NewFrame(f)) /\ NewFrame(f).file = Head1(f)
  BY DEF Looked, NewFrame

LEMMA UpdateFileWalked ==
    ASSUME FailInv, NEW f \in Files, NEW below \in Seq(Frame), NEW marked, UpdateFile(f, marked, below),
           Kept, UNCHANGED <<deps, goals, at>>, Walked(below), below = <<>> => f = goals[at]
    PROVE  Walked(frames)' /\ pc' \in {"walk", "back"}
  <1>1. OrderInv /\ TypeInv
    BY DEF FailInv, OrderInv
  <1>2. PICK x : x = NewFrame(f)
    OBVIOUS
  <1>3. x \in Frame /\ Looked(x) /\ x.file = Head1(f)
    BY <1>1, <1>2, NewFrameSees, NewFrameLooked
  <1>4. (pc' = "back" /\ frames' = below) \/ (pc' = "walk" /\ frames' = <<x>> \o below)
    BY <1>2, Zenon DEF UpdateFile, Pruned, Consider
  <1>5. PICK fs : fs = frames'
    OBVIOUS
  <1>6. CASE frames' = below
    BY <1>1, <1>4, <1>6, WalkedKept
  <1>7. CASE frames' = <<x>> \o below /\ pc' = "walk"
    <2>1. fs \in Seq(Frame)
      BY <1>3, <1>5, <1>7, PushedFrame
    <2>2. Walked(fs)
      BY <1>3, <1>5, <1>7, WalkedPush
    <2>3. Walked(fs)'
      BY <1>1, <2>1, <2>2, WalkedKept
    <2> QED
      BY <1>5, <1>7, <2>3
  <1> QED
    BY <1>4, <1>6, <1>7

LEMMA WalkGoalFail ==
    ASSUME FailInv, OrderInv', WalkGoal
    PROVE  FailInv'
  <1>1. /\ pc = "goal" /\ frames = <<>> /\ goals[at] \in Files
        /\ UNCHANGED <<make, deps, commandState, updateStatus, updated, goals, at, status, children, lost>>
        /\ UpdateFile(goals[at], updating, <<>>)
    <2>1. at \in Nat /\ at # 0 /\ at <= Len(goals) /\ goals \in Seq(Files) /\ pc = "goal"
      BY DEF WalkGoal, FailInv, OrderInv, TypeInv, TypeOK
    <2>2. goals[at] \in Files
      BY <2>1
    <2> QED
      BY <2>1, <2>2 DEF WalkGoal, FailInv, OrderInv, Stack, given, marks, chain, procs
  <1>2. <<>> \in Seq(Frame) /\ Walked(<<>>)
    BY DEF Walked
  <1>3. Kept /\ \A g \in Heads : SameMark(g)
    BY <1>1 DEF Kept, SameMark
  <1>4. Walked(frames)' /\ pc' \in {"walk", "back"}
    BY <1>1, <1>2, <1>3, UpdateFileWalked
  <1> QED
    BY <1>1, <1>3, <1>4, QuietFail

LEMMA CheckDepFail ==
    ASSUME FailInv, OrderInv', CheckDep
    PROVE  FailInv'
  <1>1. /\ pc = "walk" /\ frames # <<>> /\ Top.left # {} /\ Walked(frames) /\ frames \in Seq(Frame)
        /\ UNCHANGED <<make, deps, commandState, updateStatus, updated, goals, at, status, children, lost>>
        /\ UpdateFile(Prereq, updating \cup {Prereq},
                      <<[Top EXCEPT !.before = lastMtime[Prereq]]>> \o Tail(frames))
        /\ lastMtime \in [Files -> Nat] /\ OrderInv
    BY DEF CheckDep, AtPrereq, FailInv, OrderInv, TypeInv, TypeOK, given, marks, chain, procs
  <1>2. Top \in Frame /\ Top = frames[1] /\ 1 \in 1 .. Len(frames) /\ Prereq \in Files
    BY <1>1, CurrentEdge
  <1>3. PICK x : x = [Top EXCEPT !.before = lastMtime[Prereq]]
    OBVIOUS
  <1>4. x \in Frame /\ x.file = Top.file /\ x.left = Top.left /\ x.running = Top.running
    <2>1. lastMtime[Prereq] \in Nat
      BY <1>1, <1>2
    <2> QED
      BY <1>2, <1>3, <2>1 DEF Frame
  <1>5. Looked(x)
    BY <1>1, <1>2, <1>4 DEF Walked, Looked
  <1>6. PICK b : b = <<x>> \o Tail(frames)
    OBVIOUS
  <1>7. b \in Seq(Frame) /\ b # <<>> /\ Walked(b)
    <2>1. b \in Seq(Frame) /\ b # <<>>
      BY <1>1, <1>4, <1>6, ReplacedFrame
    <2>2. Walked(b)
      BY <1>1, <1>2, <1>4, <1>5, <1>6, WalkedReplace
    <2> QED
      BY <2>1, <2>2
  <1>8. Kept /\ \A g \in Heads : SameMark(g)
    BY <1>1 DEF Kept, SameMark
  <1>9. PICK marked : marked = updating \cup {Prereq}
    OBVIOUS
  <1>10. UpdateFile(Prereq, marked, b)
    BY <1>1, <1>3, <1>6, <1>9
  <1>11. Walked(frames)' /\ pc' \in {"walk", "back"}
    BY <1>1, <1>2, <1>7, <1>8, <1>10, UpdateFileWalked
  <1> QED
    BY <1>1, <1>8, <1>11, QuietFail

(* What an activation is done with is updated, or it has to wait; a        *)
(* failure ends the loop only without -k, when there is none.              *)
LEMMA CheckedDepFail ==
    ASSUME FailInv, OrderInv', CheckedDep
    PROVE  FailInv'
  <1> DEFINE new   == Larger(Top.status, ret)
             run   == Top.running \/ commandState[Prereq] \in InProgress
             stop  == new # Success /\ ~make.keepGoing
             binds == ~OrderOnly(Current.edge)
             moved == binds /\ ~run /\ (lastMtime[Prereq] # Top.before \/ Top.before = Missing)
             X == [Top EXCEPT !.status = new, !.running = run,
                    !.must = @ \/ (binds /\ OutOfDate(Prereq, Top.mtime)),
                    !.changed = @ \/ moved,
                    !.left = IF stop THEN {} ELSE @ \ {Current}]
  <1>1. /\ pc = "back" /\ frames # <<>> /\ Top.left # {} /\ pc' = "walk"
        /\ frames' = <<X>> \o Tail(frames)
        /\ UNCHANGED <<make, deps, commandState, updateStatus, updated, goals, at, status, children, lost>>
    BY DEF CheckedDep, FailInv, OrderInv, TypeInv, TypeOK, given, marks, chain, procs
  <1>2. /\ OrderInv /\ Walked(frames) /\ frames \in Seq(Frame) /\ Returned
        /\ Told /\ (lost # {} => make.keepGoing)
    BY <1>1 DEF FailInv, OrderInv, TypeInv, TypeOK
  <1>3. /\ Top \in Frame /\ Top = frames[1] /\ 1 \in 1 .. Len(frames) /\ Prereq \in Files
        /\ Top.file \in Heads
    BY <1>1, <1>2, CurrentEdge
  <1>4. PICK x : x = X
    OBVIOUS
  <1>5. /\ x.file = Top.file /\ x.status = new /\ x.running = run
        /\ x.left = IF stop THEN {} ELSE Top.left \ {Current}
    BY <1>3, <1>4 DEF Frame
  <1>6. frames' = <<x>> \o Tail(frames)
    BY <1>1, <1>4
  <1> HIDE DEF X, new
  <1>7. x \in Frame /\ Sees(x)'
    <2>1. Tail(frames) \in Seq(Frame) /\ frames' \in Seq(Frame)
      BY <1>1, <1>2, PoppedFrame DEF OrderInv, TypeInv, TypeOK
    <2>2. 1 \in 1 .. Len(frames') /\ frames'[1] = x
      BY <1>6, <2>1
    <2>3. x \in Frame
      BY <2>1, <2>2
    <2>4. Chain(frames)'
      BY <1>1 DEF OrderInv, Stack
    <2>5. Sees(frames[1])'
      BY <2>2, <2>4 DEF Chain
    <2> QED
      BY <2>2, <2>3, <2>5
  <1>8. Kept /\ \A g \in Heads : SameMark(g)
    BY <1>1 DEF Kept, SameMark
  <1>9. ~stop
    <2> SUFFICES ASSUME x.status # Success PROVE make.keepGoing
      BY <1>5
    <2>1. PICK d \in Edges(x.file) : Broken(Head1(d.edge[2]))
      <3>1. Edges(x.file)' = Edges(x.file)
        BY <1>1 DEF Edges
      <3>2. \A f : Broken(Head1(f))' = Broken(Head1(f))
        BY <1>1 DEF Broken, Head1
      <3> QED
        BY <1>7, <3>1, <3>2 DEF Sees
    <2>2. Head1(d.edge[2]) \in Heads
      BY <1>2, <1>3, <1>5, EdgeHeads
    <2> QED
      BY <1>2, <2>1, <2>2 DEF Told
  <1>10. Looked(x)
    <2> SUFFICES ASSUME NEW d \in Edges(x.file) \ x.left
                 PROVE  HackEdge(d.edge) \/ updated[Head1(d.edge[2])] \/ x.running
      BY DEF Looked
    <2>1. CASE d = Current
      <3>1. Head1(d.edge[2]) = Head1(Prereq)
        BY <2>1 DEF Prereq
      <3>2. commandState[Prereq] \in InProgress \/ updated[Head1(Prereq)]
        BY <1>1, <1>2 DEF Returned
      <3> QED
        BY <1>5, <3>1, <3>2
    <2>2. CASE d # Current
      <3>1. d \in Edges(Top.file) \ Top.left
        BY <1>5, <1>9, <2>2
      <3> QED
        BY <1>2, <1>3, <1>5, <3>1 DEF Walked, Looked
    <2> QED
      BY <2>1, <2>2
  <1>11. PICK fs : fs = frames'
    OBVIOUS
  <1>12. fs \in Seq(Frame) /\ Walked(fs)
    <2>1. <<x>> \o Tail(frames) \in Seq(Frame)
      BY <1>1, <1>2, <1>7, ReplacedFrame
    <2>2. Walked(<<x>> \o Tail(frames))
      BY <1>1, <1>2, <1>3, <1>5, <1>7, <1>10, WalkedReplace
    <2> QED
      BY <1>6, <1>11, <2>1, <2>2
  <1>13. Walked(fs)'
    BY <1>1, <1>2, <1>8, <1>12, WalkedKept
  <1>14. Walked(frames)'
    BY <1>11, <1>13
  <1> QED
    BY <1>1, <1>8, <1>14, QuietFail

(* An activation returns, or waits for new_job().                          *)
LEMMA LeaveFail ==
    ASSUME FailInv, OrderInv', UNCHANGED <<make, deps, goals, at, status, children, lost>>,
           \A g \in Heads : SameMark(g), Kept, frames # <<>>,
           {pc, pc'} \cap {"die", "exit"} = {}, frames' \in {frames, Tail(frames)}
    PROVE  FailInv'
  <1>1. OrderInv /\ Walked(frames) /\ frames \in Seq(Frame)
    BY DEF FailInv, OrderInv, TypeInv, TypeOK
  <1>2. PICK fs : fs = frames'
    OBVIOUS
  <1>3. fs \in Seq(Frame) /\ Walked(fs)
    <2>1. Tail(frames) \in Seq(Frame) /\ Walked(Tail(frames))
      BY <1>1, PoppedFrame, WalkedPop
    <2> QED
      BY <1>1, <1>2, <2>1
  <1>4. Walked(fs)'
    BY <1>1, <1>3, WalkedKept
  <1>5. Walked(frames)'
    BY <1>2, <1>4
  <1> QED
    BY <1>5, QuietFail

LEMMA WaitFail ==
    ASSUME FailInv, OrderInv', NEW f \in Files, PrereqsRunning(f) \/ MustRemake(f)
    PROVE  FailInv'
  <1>1. /\ Decide(f) /\ UNCHANGED <<make, deps, children, updateStatus, updated, goals, at, status, lost>>
        /\ frames' \in {frames, Tail(frames)} /\ pc = "walk" /\ pc' \in {"back", "new_job"}
    BY DEF PrereqsRunning, MustRemake, Decided, Decide, Return, given, procs, chain
  <1>2. OrderInv
    BY DEF FailInv
  <1>3. /\ f \in Heads /\ Head1(f) = f /\ Unmade(f) /\ children[f] = 0 /\ children \in [Files -> Nat]
        /\ frames # <<>>
    BY <1>1, <1>2, AtDecision DEF Decide, OrderInv, TypeInv, TypeOK
  <1>4. PICK s \in {"deps_running", "not_started"} : commandState' = StateOfGroup(f, s)
    BY DEF PrereqsRunning, MustRemake
  <1>5. children' = [children EXCEPT ![f] = 0]
    BY <1>1, <1>3
  <1>6. Kept /\ OthersSame(f) /\ \A g \in Files : Head1(g) = f => commandState'[g] = s
    BY <1>1, <1>2, <1>3, <1>4, <1>5, StateMarks
  <1>7. \A g \in Heads : SameMark(g)
    BY <1>1, <1>3, <1>6 DEF SameMark, Heads, OthersSame, Unmade
  <1> QED
    BY <1>1, <1>3, <1>6, <1>7, LeaveFail

(* With -k, a failure can be asked of a goal only if the goal heads its    *)
(* group: notice_finished_file() need not pass it on to the others.        *)
HeadsAsked ==
    \A m \in Makefiles : m.keepGoing => \A g \in Range(m.goals) : Head(m.group[g]) = g

LEMMA FailInit == ASSUME HeadsAsked, Init PROVE FailInv
  <1>1. OrderInv /\ make \in Makefiles /\ goals = make.goals /\ pc = "pass"
    BY OrderInit DEF Init
  <1>2. HeadGoals
    BY <1>1 DEF HeadsAsked, HeadGoals, Head1
  <1>3. lost = {} /\ Running = {} /\ status # Failed /\ \A f \in Heads : ~Broken(f)
    BY DEF Init, Running, Heads, Broken, None, Failed
  <1>4. Told /\ Reached /\ Walked(frames)
    BY <1>3 DEF Init, Told, Reached, Holds, Walked
  <1> QED
    BY <1>1, <1>2, <1>3, <1>4 DEF FailInv

LEMMA FailStep == ASSUME Orderly, FailInv, [Next]_vars PROVE FailInv'
  <1>1. OrderInv' /\ OrderInv
    BY OrderStep DEF FailInv
  <1>2. CASE PassReaps \/ NewJobReaps \/ LinearReaps
    BY <1>1, <1>2, ReapFail DEF PassReaps, NewJobReaps, LinearReaps
  <1>3. CASE Die
    <2>1. CASE Running = {}
      <3>1. /\ pc = "die" /\ pc' = "exit"
            /\ UNCHANGED <<make, goals, status, updated, updateStatus, children, lost>>
        BY <1>3, <2>1 DEF Die, given, chain, marks, procs
      <3>2. Told' /\ HeadGoals' /\ Running' = Running
        <4>1. Told /\ HeadGoals
          BY DEF FailInv
        <4> QED
          BY <3>1, <4>1 DEF Told, HeadGoals, Heads, Head1, Broken, Running
      <3> QED
        BY <1>1, <3>1, <3>2 DEF FailInv
    <2>2. CASE Running # {}
      BY <1>1, <1>3, <2>2, ReapFail DEF Die
    <2> QED
      BY <2>1, <2>2
  <1>4. CASE BeginPass
    <2>1. /\ frames = <<>> /\ frames' = <<>> /\ {pc, pc'} \cap {"die", "exit"} = {}
          /\ UNCHANGED <<make, deps, goals, status, commandState, updated, updateStatus, children, lost>>
      BY <1>1, <1>4 DEF BeginPass, OrderInv, Stack, given, marks, walk, procs
    <2> QED
      BY <1>1, <2>1, QuietFail DEF SameMark, Walked
  <1>5. CASE EndPass
    <2>1. /\ pc = "goal" /\ frames = <<>> /\ frames' = <<>>
          /\ UNCHANGED <<make, deps, goals, status, commandState, updated, updateStatus, children, lost>>
          /\ pc' = IF goals = <<>> THEN "die" ELSE "pass"
      BY <1>1, <1>5 DEF EndPass, OrderInv, Stack, given, marks, chain, procs
    <2>2. CASE goals # <<>>
      BY <1>1, <2>1, <2>2, QuietFail DEF SameMark, Walked
    <2>3. CASE goals = <<>>
      <3>1. Closed({})
        BY <2>3 DEF Closed, Range
      <3>2. Running = {} /\ (lost # {} => status = Failed)
        BY <2>1, <3>1 DEF FailInv, Reached, Holds
      <3>3. Told' /\ HeadGoals' /\ Running' = Running
        <4>1. Told /\ HeadGoals
          BY DEF FailInv
        <4> QED
          BY <2>1, <4>1 DEF Told, HeadGoals, Heads, Head1, Broken, Running
      <3> QED
        BY <1>1, <2>1, <2>3, <3>2, <3>3 DEF FailInv
    <2> QED
      BY <2>2, <2>3
  <1>6. CASE WalkGoal \/ GoalBack \/ CircularDropped \/ CheckDep \/ CheckedDep
    BY <1>1, <1>6, WalkGoalFail, GoalBackFail, CircularFail, CheckDepFail, CheckedDepFail
  <1>7. ASSUME NEW f \in Files,
               \/ PrereqsRunning(f) \/ GiveUp(f) \/ NoNeedToRemake(f)
               \/ RemakeWithoutRecipe(f) \/ RunEmptyRecipe(f) \/ MustRemake(f) \/ NewJob(f)
        PROVE  FailInv'
    BY <1>1, <1>7, WaitFail, DecisionFail, NewJobFail
  <1>8. CASE LinearDone
    <2>1. /\ pc = "linear" /\ pc' = "back" /\ frames # <<>> /\ frames' = Tail(frames)
          /\ UNCHANGED <<make, deps, goals, at, status, commandState, updated, updateStatus, children, lost>>
      BY <1>1, <1>8 DEF LinearDone, Return, OrderInv, TypeInv, TypeOK, given, marks, chain, procs
    <2> QED
      BY <1>1, <2>1, LeaveFail DEF SameMark, Kept
  <1>9. CASE UNCHANGED vars
    <2>1. /\ UNCHANGED <<make, deps, goals, at, status, commandState, updated, updateStatus, children, lost>>
          /\ frames' = frames /\ pc' = pc
      BY <1>9 DEF vars, given, marks, chain, walk, procs
    <2>2. CASE pc \in {"die", "exit"}
      <3>1. Told' /\ HeadGoals' /\ Running' = Running
        <4>1. Told /\ HeadGoals
          BY DEF FailInv
        <4> QED
          BY <2>1, <4>1 DEF Told, HeadGoals, Heads, Head1, Broken, Running
      <3> QED
        BY <1>1, <2>1, <2>2, <3>1 DEF FailInv
    <2>3. CASE pc \notin {"die", "exit"}
      <3>1. PICK fs : fs = frames
        OBVIOUS
      <3>2. Walked(fs)'
        BY <1>1, <2>1, <2>3, <3>1, WalkedKept DEF FailInv, OrderInv, TypeInv, TypeOK, Kept
      <3>3. Walked(frames)'
        BY <2>1, <3>1, <3>2
      <3> QED
        BY <1>1, <2>1, <2>3, <3>3, QuietFail DEF SameMark
    <2> QED
      BY <2>2, <2>3
  <1> QED
    BY <1>2, <1>3, <1>4, <1>5, <1>6, <1>7, <1>8, <1>9 DEF Next

(* When the goal chain is empty nothing runs any more, and kmk's status is *)
(* a failure exactly if a recipe failed or a file could not be made: for   *)
(* every set of orderly makefiles of which, with -k, only heads of groups  *)
(* are goals.                                                              *)
THEOREM FailuresTold == ASSUME Orderly, HeadsAsked PROVE Spec => []ExitTellsFailure
  <1>1. Init => FailInv
    BY FailInit
  <1>2. FailInv /\ [Next]_vars => FailInv'
    BY FailStep
  <1>3. FailInv => ExitTellsFailure
    BY DEF FailInv, Told, ExitTellsFailure
  <1> QED
    BY <1>1, <1>2, <1>3, PTL DEF Spec

-----------------------------------------------------------------------------
(* The times.  A cached time is the one on the disk, since what writes a   *)
(* file is reaped with notice_finished_file().  What an activation knows   *)
(* of its group and of the prerequisites it is done with is still so,      *)
(* since a group that is considered does not run, and one that is done     *)
(* will not run again.                                                     *)
Cached == lastMtime = disk

Counts(d)  == ~OrderOnly(d.edge) /\ ~HackEdge(d.edge)
Late(p, t) == disk[p] = Missing \/ disk[p] > t

Knows(x) ==
    /\ \A g \in Oldest(x.file) : x.mtime <= disk[g]
    /\ IF x.mtime = Missing
       THEN \E g \in Group(x.file) : disk[g] = Missing
       ELSE \E g \in Oldest(x.file) : disk[g] = x.mtime
    /\ ~x.running /\ x.status = Success =>
          (x.must <=> \/ x.mtime = Missing
                      \/ \E d \in Edges(x.file) \ x.left :
                            Counts(d) /\ Late(d.edge[2], x.mtime))

Known(fs) == \A k \in 1 .. Len(fs) : Knows(fs[k])

(* The activations that work on groups that are not made and do not run.   *)
Waiters == IF pc = "linear" THEN Tail(frames) ELSE frames

Stale(h) == ~FreshOnDisk(h) \/ \E g \in Group(h) : disk[g] = Missing

Rested(h) ==
    /\ FreshOnDisk(h)
    /\ \A e \in Edge : Head1(e[1]) = h => Done(Head1(e[2]))

FreshInv ==
    /\ OrderInv /\ Cached /\ Running \subseteq started
    /\ \A h \in Heads : Done(h) /\ h \notin started /\ make.cmds[h] = "recipe" => Rested(h)
    /\ pc \notin {"die", "exit"} => Known(Waiters)
    /\ pc = "new_job" => Stale(Top.file)

(* What is not rewritten: a group that is made, or considered.             *)
LEMMA KnowsKept ==
    ASSUME OrderInv, NEW x \in Frame, Sees(x), Knows(x), UNCHANGED <<make, deps>>,
           \A g \in Files : updated[Head1(g)] \/ Head1(g) = x.file => disk'[g] = disk[g]
    PROVE  Knows(x)'
  <1>1. make \in Makefiles /\ DepsType /\ x.file \in Heads /\ x.file \in Files
    BY DEF OrderInv, TypeInv, TypeOK, DepsType, Sees, Heads
  <1>2. ASSUME NEW g \in Group(x.file) PROVE disk'[g] = disk[g]
    <2>1. g \in Files /\ Head1(g) = x.file
      <3>1. g \in Files
        BY <1>1, GroupType
      <3>2. Head1(x.file) = x.file
        BY <1>1 DEF Heads
      <3> QED
        BY <1>1, <3>1, <3>2, HeadOfGroup
    <2> QED
      BY <2>1
  <1>3. /\ Group(x.file)' = Group(x.file) /\ Oldest(x.file)' = Oldest(x.file)
        /\ Oldest(x.file) \subseteq Group(x.file) /\ Edges(x.file)' = Edges(x.file)
    BY DEF Group, Oldest, Edges
  <1>4. /\ \A g \in Oldest(x.file) : x.mtime <= disk[g]
        /\ IF x.mtime = Missing
           THEN \E g \in Group(x.file) : disk[g] = Missing
           ELSE \E g \in Oldest(x.file) : disk[g] = x.mtime
        /\ ~x.running /\ x.status = Success =>
              (x.must <=> \/ x.mtime = Missing
                          \/ \E d \in Edges(x.file) \ x.left :
                                Counts(d) /\ Late(d.edge[2], x.mtime))
    BY DEF Knows
  <1>5. ASSUME ~x.running, x.status = Success, NEW d \in Edges(x.file) \ x.left
        PROVE  (Counts(d) /\ Late(d.edge[2], x.mtime))' <=> Counts(d) /\ Late(d.edge[2], x.mtime)
    <2>1. Counts(d)' <=> Counts(d)
      BY DEF Counts, OrderOnly, HackEdge, Head1
    <2>2. ASSUME Counts(d) PROVE disk'[d.edge[2]] = disk[d.edge[2]]
      <3>1. Done(Head1(d.edge[2])) /\ d.edge[2] \in Files
        BY <1>1, <1>5, <2>2, EdgesOfGroup DEF Sees, Counts
      <3> QED
        BY <3>1 DEF Done
    <2> QED
      BY <2>1, <2>2 DEF Late
  <1>6. \A g \in Oldest(x.file) : x.mtime <= disk'[g]
    BY <1>2, <1>3, <1>4
  <1>7. IF x.mtime = Missing
        THEN \E g \in Group(x.file) : disk'[g] = Missing
        ELSE \E g \in Oldest(x.file) : disk'[g] = x.mtime
    BY <1>2, <1>3, <1>4
  <1>8. ~x.running /\ x.status = Success =>
              (x.must <=> \/ x.mtime = Missing
                          \/ \E d \in Edges(x.file) \ x.left :
                                (Counts(d) /\ Late(d.edge[2], x.mtime))')
    BY <1>4, <1>5
  <1> QED
    BY <1>3, <1>6, <1>7, <1>8 DEF Knows

LEMMA KnownKept ==
    ASSUME OrderInv, NEW fs \in Seq(Frame), Chain(fs), Known(fs), UNCHANGED <<make, deps>>,
           \A g \in Files : updated[Head1(g)] \/ Head1(g) \in Stacked(fs) => disk'[g] = disk[g]
    PROVE  Known(fs)'
  <1>1. ASSUME NEW k \in 1 .. Len(fs) PROVE Knows(fs[k])'
    <2>1. fs[k] \in Frame /\ Sees(fs[k]) /\ Knows(fs[k])
      BY DEF Chain, Known
    <2>2. fs[k].file \in Stacked(fs)
      BY DEF Stacked
    <2> QED
      BY <2>1, <2>2, KnowsKept
  <1> QED
    BY <1>1 DEF Known

LEMMA KnownPop ==
    ASSUME NEW fs \in Seq(Frame), fs # <<>>, Known(fs)
    PROVE  Known(Tail(fs)) /\ Knows(fs[1])
  <1>1. PICK t : t = Tail(fs)
    OBVIOUS
  <1>2. /\ t \in Seq(Frame) /\ Len(t) = Len(fs) - 1 /\ Len(fs) \in Nat \ {0}
        /\ \A k \in 1 .. Len(fs) - 1 : t[k] = fs[k + 1]
    BY <1>1, PoppedFrame
  <1>3. \A k \in 1 .. Len(t) : Knows(t[k])
    BY <1>2 DEF Known
  <1>4. 1 \in 1 .. Len(fs)
    BY <1>2
  <1> QED
    BY <1>1, <1>3, <1>4 DEF Known

LEMMA KnownPush ==
    ASSUME NEW fs \in Seq(Frame), Known(fs)', NEW x \in Frame, Knows(x)'
    PROVE  Known(<<x>> \o fs)'
  <1>1. PICK p : p = <<x>> \o fs
    OBVIOUS
  <1>2. /\ p \in Seq(Frame) /\ Len(p) = Len(fs) + 1 /\ p[1] = x /\ Len(fs) \in Nat
        /\ \A k \in 2 .. Len(p) : p[k] = fs[k - 1]
    BY <1>1, PushedFrame
  <1>3. ASSUME NEW k \in 1 .. Len(p) PROVE Knows(p[k])'
    <2>1. CASE k = 1
      BY <1>2, <2>1
    <2>2. CASE k # 1
      BY <1>2, <2>2 DEF Known
    <2> QED
      BY <2>1, <2>2
  <1> QED
    BY <1>1, <1>3 DEF Known

(* What an activation starts from.                                         *)
LEMMA NewFrameKnows ==
    ASSUME TypeInv, Cached, NEW f \in Files
    PROVE  Knows(NewFrame(f))
  <1> DEFINE Counted == {g \in Group(f) : \/ g = Head1(f) \/ g \notin make.maybe
                                          \/ (g = f /\ lastMtime[f] = Missing)}
             T == {lastMtime[g] : g \in Counted}
  <1>1. make \in Makefiles /\ lastMtime = disk /\ lastMtime \in [Files -> Nat]
    BY DEF TypeInv, TypeOK, Cached
  <1>2. /\ Head1(f) \in Counted /\ Counted \subseteq Files /\ Head1(f) \in Files
        /\ Head1(f) \in Group(f)
    BY <1>1, GroupType
  <1>3. Group(Head1(f)) = Group(f) /\ Head1(f) \notin make.maybe
    BY <1>1, <1>2, GroupHead
  <1>4. T \subseteq Nat /\ T # {}
    BY <1>1, <1>2
  <1>5. PICK t \in T : \A u \in T : t <= u
    BY <1>4, Least
  <1>6. \A g \in Counted : lastMtime[g] \in T
    OBVIOUS
  <1>7. /\ (CHOOSE u \in T : \A g \in Counted : u <= lastMtime[g]) \in T
        /\ \A g \in Counted : (CHOOSE u \in T : \A o \in Counted : u <= lastMtime[o]) <= lastMtime[g]
    BY <1>5, <1>6
  <1>8. ThisMtime(f) \in T /\ \A g \in Counted : ThisMtime(f) <= lastMtime[g]
    BY <1>7 DEF ThisMtime
  <1>9. Oldest(Head1(f)) = {g \in Group(f) : g \notin make.maybe}
    BY <1>3 DEF Oldest
  <1>10. \A g \in Oldest(Head1(f)) : ThisMtime(f) <= disk[g]
    BY <1>1, <1>8, <1>9
  <1>11. PICK g \in Counted : ThisMtime(f) = lastMtime[g]
    BY <1>8
  <1>12. IF ThisMtime(f) = Missing
         THEN \E o \in Group(Head1(f)) : disk[o] = Missing
         ELSE \E o \in Oldest(Head1(f)) : disk[o] = ThisMtime(f)
    BY <1>1, <1>3, <1>9, <1>11
  <1> QED
    BY <1>10, <1>12 DEF NewFrame, Knows

(* What is fresh stays so, and what is stale.                              *)
LEMMA RestedKept ==
    ASSUME OrderInv, NEW h \in Heads, updated[h], Rested(h), UNCHANGED make, Edge' \subseteq Edge, Kept,
           \A g \in Files : updated[Head1(g)] => disk'[g] = disk[g]
    PROVE  Rested(h)'
  <1>1. make \in Makefiles /\ h \in Files /\ Head1(h) = h
    BY DEF OrderInv, TypeInv, TypeOK, Heads
  <1>2. ASSUME NEW g \in Group(h) PROVE disk'[g] = disk[g]
    <2>1. g \in Files
      BY <1>1, GroupType
    <2> QED
      BY <1>1, <2>1, HeadOfGroup
  <1>3. Oldest(h)' = Oldest(h) /\ Oldest(h) \subseteq Group(h)
    BY DEF Oldest, Group
  <1>4. ASSUME NEW e \in Edge, Head1(e[1]) = h
        PROVE  disk'[e[2]] = disk[e[2]] /\ Done(Head1(e[2]))'
    <2>1. e[2] \in Files /\ Done(Head1(e[2]))
      BY <1>4 DEF Edge, Rested
    <2>2. Head1(e[2]) \in Files /\ Head1(e[2])' = Head1(e[2])
      BY <1>1, <2>1, HeadOfGroup DEF Head1
    <2> QED
      BY <2>1, <2>2 DEF Done, Kept
  <1>5. FreshOnDisk(h)
    BY DEF Rested
  <1>6. \A g \in Oldest(h) :
          /\ disk'[g] # Missing
          /\ \A e \in Edge : Head1(e[1]) = h /\ ~OrderOnly(e) =>
                 disk'[e[2]] # Missing /\ disk'[e[2]] <= disk'[g]
    BY <1>2, <1>3, <1>4, <1>5 DEF FreshOnDisk
  <1>7. /\ \A f : Head1(f)' = Head1(f)
        /\ \A e : OrderOnly(e)' <=> OrderOnly(e)
    BY DEF Head1, OrderOnly
  <1>8. FreshOnDisk(h)'
    BY <1>3, <1>6, <1>7 DEF FreshOnDisk
  <1> QED
    BY <1>4, <1>7, <1>8 DEF Rested

LEMMA StaleKept ==
    ASSUME OrderInv, NEW h \in Heads, Stale(h), UNCHANGED <<make, deps>>,
           \A g \in Files : Head1(g) = h => disk'[g] = disk[g],
           \A e \in Edge : Head1(e[1]) = h => disk'[e[2]] = disk[e[2]]
    PROVE  Stale(h)'
  <1>1. make \in Makefiles /\ h \in Files /\ Head1(h) = h
    BY DEF OrderInv, TypeInv, TypeOK, Heads
  <1>2. ASSUME NEW g \in Group(h) PROVE disk'[g] = disk[g]
    <2>1. g \in Files
      BY <1>1, GroupType
    <2> QED
      BY <1>1, <2>1, HeadOfGroup
  <1>3. Oldest(h)' = Oldest(h) /\ Oldest(h) \subseteq Group(h) /\ Group(h)' = Group(h) /\ Edge' = Edge
    BY DEF Oldest, Group, Edge, HackEdge, Head1
  <1>4. /\ \A f : Head1(f)' = Head1(f)
        /\ \A e : OrderOnly(e)' <=> OrderOnly(e)
    BY DEF Head1, OrderOnly
  <1>5. ASSUME FreshOnDisk(h)' PROVE FreshOnDisk(h)
    <2>1. \A g \in Oldest(h) :
            /\ disk'[g] # Missing
            /\ \A e \in Edge : Head1(e[1]) = h /\ ~OrderOnly(e) =>
                   disk'[e[2]] # Missing /\ disk'[e[2]] <= disk'[g]
      BY <1>3, <1>4, <1>5 DEF FreshOnDisk
    <2>2. \A g \in Oldest(h) :
            /\ disk[g] # Missing
            /\ \A e \in Edge : Head1(e[1]) = h /\ ~OrderOnly(e) =>
                   disk[e[2]] # Missing /\ disk[e[2]] <= disk[g]
      BY <1>2, <1>3, <2>1
    <2> QED
      BY <2>2 DEF FreshOnDisk
  <1> QED
    BY <1>2, <1>3, <1>5 DEF Stale

(* The decision is right.                                                  *)
LEMMA CountedEdges ==
    ASSUME make \in Makefiles, DepsType, NEW h \in Heads
    PROVE  /\ \A d \in Edges(h) : ~HackEdge(d.edge) =>
                 d.edge \in Edge /\ Head1(d.edge[1]) = h /\ d.edge[2] \in Files
           /\ \A e \in Edge : Head1(e[1]) = h =>
                 e[2] \in Files /\ \E d \in Edges(h) : d.edge = e /\ ~HackEdge(d.edge)
  <1>1. ASSUME NEW d \in Edges(h), ~HackEdge(d.edge)
        PROVE  d.edge \in Edge /\ Head1(d.edge[1]) = h /\ d.edge[2] \in Files
    BY <1>1, NeedsOfGroup, EdgesOfGroup
  <1>2. ASSUME NEW e \in Edge, Head1(e[1]) = h
        PROVE  e[2] \in Files /\ \E d \in Edges(h) : d.edge = e /\ ~HackEdge(d.edge)
    <2>1. /\ e = <<e[1], e[2]>> /\ e[1] \in Files /\ e[2] \in Files
          /\ e[2] \in Range(deps[e[1]]) /\ ~HackEdge(e)
      BY DEF Edge
    <2>2. PICK d \in Edges(h) : d.edge = <<e[1], e[2]>>
      BY <1>2, <2>1, EdgesOfGroup
    <2> QED
      BY <2>1, <2>2
  <1> QED
    BY <1>1, <1>2

LEMMA MustMakeStale ==
    ASSUME OrderInv, Cached, NEW f, f \in Files,
           Decide(f), Knows(Top), ~Top.running, Top.status = Success, make.cmds[f] # "none"
    PROVE  IF MustMake(f) THEN Stale(f) ELSE FreshOnDisk(f)
  <1>1. /\ f \in Heads /\ Head1(f) = f /\ Top \in Frame /\ f = Top.file /\ Top.left = {}
        /\ make \in Makefiles /\ DepsType /\ lastMtime = disk
    BY AtDecision DEF OrderInv, TypeInv, TypeOK, DepsType, Cached
  <1>2. disk \in [Files -> Nat] /\ Missing \in Nat /\ Top.mtime \in Nat /\ Missing = 0
    BY <1>1 DEF OrderInv, TypeInv, TypeOK, Missing, Frame
  <1>3. f \in Oldest(f) /\ f \in Group(f) /\ Oldest(f) \subseteq Group(f) /\ Group(f) \subseteq Files
    BY <1>1, GroupType, HeadOfGroup DEF Oldest
  <1>4. /\ \A g \in Oldest(f) : Top.mtime <= disk[g]
        /\ Top.mtime = Missing => \E g \in Group(f) : disk[g] = Missing
        /\ Top.mtime # Missing => \E g \in Oldest(f) : disk[g] = Top.mtime
        /\ Top.must <=> \/ Top.mtime = Missing
                        \/ \E d \in Edges(f) : Counts(d) /\ Late(d.edge[2], Top.mtime)
    BY <1>1 DEF Knows
  <1>5. MustMake(f) <=>
           \/ Top.must
           \/ \E d \in Edges(f) :
                 /\ ~OrderOnly(d.edge) /\ disk[d.edge[2]] = Missing
                 /\ ~(d.edge[1] = d.edge[2] /\ d.edge[1] \in make.maybe)
    BY <1>1 DEF MustMake
  <1>6. ASSUME NEW d \in Edges(f), Counts(d), Late(d.edge[2], Top.mtime), Top.mtime # Missing
        PROVE  ~FreshOnDisk(f)
    <2>1. PICK g \in Oldest(f) : disk[g] = Top.mtime
      BY <1>4, <1>6
    <2>2. /\ d.edge \in Edge /\ Head1(d.edge[1]) = f /\ d.edge[2] \in Files /\ ~OrderOnly(d.edge)
      BY <1>1, <1>6, CountedEdges DEF Counts
    <2>3. disk[d.edge[2]] = Missing \/ ~(disk[d.edge[2]] <= disk[g])
      BY <1>2, <1>6, <2>1, <2>2 DEF Late
    <2> QED
      BY <2>2, <2>3 DEF FreshOnDisk
  <1>7. ASSUME MustMake(f) PROVE Stale(f)
    <2>1. CASE Top.must
      BY <1>4, <1>6, <2>1 DEF Stale
    <2>2. ASSUME NEW d \in Edges(f), ~OrderOnly(d.edge), disk[d.edge[2]] = Missing
          PROVE  Stale(f)
      <3>1. CASE HackEdge(d.edge)
        <4>1. d.edge[2] = f
          BY <1>1, <3>1, EdgesOfGroup DEF HackEdge
        <4> QED
          BY <1>3, <2>2, <4>1 DEF Stale
      <3>2. CASE ~HackEdge(d.edge)
        <4>1. d.edge \in Edge /\ Head1(d.edge[1]) = f
          BY <1>1, <3>2, CountedEdges
        <4> QED
          BY <1>3, <2>2, <4>1 DEF Stale, FreshOnDisk
      <3> QED
        BY <3>1, <3>2
    <2> QED
      BY <1>5, <1>7, <2>1, <2>2
  <1>8. ASSUME ~MustMake(f) PROVE FreshOnDisk(f)
    <2>1. /\ Top.mtime # Missing
          /\ \A d \in Edges(f) : Counts(d) => ~Late(d.edge[2], Top.mtime)
      BY <1>4, <1>5, <1>8
    <2>2. ASSUME NEW g \in Oldest(f), NEW e \in Edge, Head1(e[1]) = f, ~OrderOnly(e)
          PROVE  disk[e[2]] # Missing /\ disk[e[2]] <= disk[g]
      <3>1. PICK d \in Edges(f) : d.edge = e /\ ~HackEdge(d.edge)
        BY <1>1, <2>2, CountedEdges
      <3>2. e[2] \in Files /\ ~Late(e[2], Top.mtime)
        BY <1>1, <2>1, <2>2, <3>1, CountedEdges DEF Counts
      <3>3. disk[e[2]] \in Nat /\ disk[g] \in Nat /\ Top.mtime <= disk[g]
        BY <1>2, <1>3, <1>4, <3>2
      <3> QED
        BY <1>2, <3>2, <3>3 DEF Late
    <2>3. \A g \in Oldest(f) : disk[g] # Missing
      BY <1>2, <1>3, <1>4, <2>1
    <2> QED
      BY <2>2, <2>3 DEF FreshOnDisk
  <1> QED
    BY <1>7, <1>8

-----------------------------------------------------------------------------
(* The steps that write no file.                                           *)
QuietTimes ==
    /\ UNCHANGED <<make, disk, lastMtime>> /\ Edge' \subseteq Edge /\ Kept
    /\ Running' \subseteq started' /\ started \subseteq started'

LEMMA QuietFresh ==
    ASSUME FreshInv, OrderInv', QuietTimes,
           \A h \in Heads : Done(h)' /\ ~Done(h) /\ make.cmds[h] = "recipe" => Rested(h)',
           pc' \notin {"die", "exit"} => Known(Waiters)',
           pc' = "new_job" => Stale(Top.file)'
    PROVE  FreshInv'
  <1>1. /\ OrderInv /\ Cached /\ UNCHANGED <<make, disk, lastMtime>> /\ Edge' \subseteq Edge /\ Kept
        /\ Running' \subseteq started' /\ started \subseteq started'
        /\ \A h \in Heads : Done(h) /\ h \notin started /\ make.cmds[h] = "recipe" => Rested(h)
    BY DEF FreshInv, QuietTimes
  <1>2. Cached' /\ Heads' = Heads
    BY <1>1 DEF Cached, Heads, Head1
  <1>3. ASSUME NEW h \in Heads, Done(h)', h \notin started', make.cmds[h] = "recipe"
        PROVE  Rested(h)'
    <2>1. CASE Done(h)
      <3>1. Rested(h) /\ updated[h]
        BY <1>1, <1>3, <2>1 DEF Done
      <3> QED
        BY <1>1, <3>1, RestedKept
    <2>2. CASE ~Done(h)
      BY <1>3, <2>2
    <2> QED
      BY <2>1, <2>2
  <1> QED
    BY <1>1, <1>2, <1>3 DEF FreshInv

(* The marks do not change.                                                *)
LEMMA SameMarksQuiet ==
    ASSUME FreshInv, UNCHANGED <<make, deps, disk, lastMtime, updated, updateStatus, children, started>>
    PROVE  QuietTimes /\ \A h \in Heads : Done(h)' <=> Done(h)
  <1>1. Edge' = Edge
    BY DEF Edge, HackEdge, Head1
  <1>2. Running' = Running /\ Running \subseteq started
    BY DEF FreshInv, Running
  <1> QED
    BY <1>1, <1>2 DEF QuietTimes, Kept, Done

(* What is left on the stack when the innermost activation returns, or     *)
(* waits for its child.                                                    *)
LEMMA TailKnown ==
    ASSUME FreshInv, pc \notin {"die", "exit"}, frames # <<>>, UNCHANGED <<make, deps, disk>>
    PROVE  Tail(frames) \in Seq(Frame) /\ Known(Tail(frames)) /\ \A fs : fs = Tail(frames) => Known(fs)'
  <1>1. OrderInv /\ frames \in Seq(Frame) /\ Chain(frames) /\ Known(Waiters)
    BY DEF FreshInv, OrderInv, TypeInv, TypeOK, Stack
  <1>2. PICK fs : fs = Tail(frames)
    OBVIOUS
  <1>3. fs \in Seq(Frame) /\ Chain(fs)
    BY <1>1, <1>2, PoppedFrame, ChainPop
  <1>4. Known(fs)
    <2>1. CASE pc = "linear"
      BY <1>1, <1>2, <2>1 DEF Waiters
    <2>2. CASE pc # "linear"
      <3>1. Known(frames)
        BY <1>1, <2>2 DEF Waiters
      <3> QED
        BY <1>1, <1>2, <3>1, KnownPop
    <2> QED
      BY <2>1, <2>2
  <1>5. Known(fs)'
    BY <1>1, <1>3, <1>4, KnownKept
  <1> QED
    BY <1>2, <1>3, <1>4, <1>5

LEMMA RestKnown ==
    ASSUME FreshInv, pc \notin {"die", "exit"}, frames # <<>>, UNCHANGED <<make, deps, disk>>,
           \/ pc' # "linear" /\ frames' = Tail(frames)
           \/ pc' = "linear" /\ frames' = frames
    PROVE  Known(Waiters)'
  <1>1. PICK fs : fs = Tail(frames)
    OBVIOUS
  <1>2. Known(fs)'
    BY <1>1, TailKnown
  <1>3. Waiters' = fs
    BY <1>1 DEF Waiters
  <1> QED
    BY <1>2, <1>3

LEMMA SameKnown ==
    ASSUME FreshInv, pc \notin {"die", "exit"}, UNCHANGED <<make, deps, disk, frames>>,
           pc = "linear" <=> pc' = "linear"
    PROVE  Known(Waiters)'
  <1>1. OrderInv /\ frames \in Seq(Frame) /\ Chain(frames) /\ Known(Waiters) /\ TypeOK
    BY DEF FreshInv, OrderInv, TypeInv, TypeOK, Stack
  <1>2. PICK fs : fs = Waiters
    OBVIOUS
  <1>3. fs \in Seq(Frame) /\ Chain(fs)
    <2>1. CASE pc = "linear"
      <3>1. frames # <<>>
        BY <1>1, <2>1 DEF TypeOK
      <3> QED
        BY <1>1, <1>2, <2>1, <3>1, PoppedFrame, ChainPop DEF Waiters
    <2>2. CASE pc # "linear"
      BY <1>1, <1>2, <2>2 DEF Waiters
    <2> QED
      BY <2>1, <2>2
  <1>4. Known(fs)'
    BY <1>1, <1>2, <1>3, KnownKept
  <1>5. Waiters' = fs
    BY <1>2 DEF Waiters
  <1> QED
    BY <1>4, <1>5

(* The decisions that are about one group.                                 *)
LEMMA NoticeFinishedTimes ==
    ASSUME Cached, TypeOK, NEW f, NEW s, NEW ran, NoticeFinished(f, s, ran, disk)
    PROVE  lastMtime' = lastMtime
  <1>1. lastMtime \in [Files -> Nat] /\ lastMtime = disk
    BY DEF Cached, TypeOK
  <1>2. \A g \in Files : (IF ran /\ g \in Group(f) \ make.phony THEN disk[g] ELSE lastMtime[g]) = lastMtime[g]
    BY <1>1
  <1>3. lastMtime' = [g \in Files |-> lastMtime[g]]
    BY <1>2 DEF NoticeFinished
  <1> QED
    BY <1>1, <1>3

LEMMA DecisionFresh ==
    ASSUME Orderly, FreshInv, OrderInv', NEW f \in Files,
           GiveUp(f) \/ NoNeedToRemake(f) \/ RunEmptyRecipe(f) \/ RemakeWithoutRecipe(f)
    PROVE  FreshInv'
  <1>1. /\ Decide(f) /\ ~Top.running /\ pc = "walk" /\ OrderInv /\ Cached /\ TypeOK
        /\ UNCHANGED <<make, deps, disk, children, started>>
        /\ make \in Makefiles /\ DepsType /\ updateStatus \in [Files -> Statuses]
    BY DEF GiveUp, NoNeedToRemake, RunEmptyRecipe, RemakeWithoutRecipe, Decided, Decide, given, procs,
           FreshInv, OrderInv, TypeInv, TypeOK, DepsType
  <1>2. /\ f \in Heads /\ Head1(f) = f /\ f = Top.file /\ Top = frames[1] /\ 1 \in 1 .. Len(frames)
        /\ frames # <<>> /\ Top \in Frame /\ ~updated[f] /\ Grouped
        /\ \A d \in Edges(f) : HackEdge(d.edge) \/ Done(Head1(d.edge[2])) \/ Top.status # Success
    BY <1>1, AtDecision DEF Unmade, OrderInv
  <1>3. Statuses = {Success, None, Failed} /\ Success # None /\ Failed # Success /\ Failed # None
    BY DEF Statuses, Success, None, Failed
  <1>4. PICK s \in Statuses, ran \in BOOLEAN :
           /\ NoticeFinished(f, s, ran, disk)
           /\ Group(f) = {f} \/ ran \/ s # Success
           /\ ran => s # None
           /\ s # Failed /\ make.cmds[f] = "recipe" => NoNeedToRemake(f)
    <2>1. CASE GiveUp(f)
      <3>1. PICK s : s = IF Top.status = None THEN Failed ELSE Top.status
        OBVIOUS
      <3>2. s \in Statuses /\ s = Failed
        BY <1>2, <1>3, <2>1, <3>1 DEF GiveUp, Frame
      <3>3. NoticeFinished(f, s, FALSE, disk)
        BY <2>1, <3>1 DEF GiveUp
      <3> QED
        BY <1>3, <3>2, <3>3
    <2>2. CASE NoNeedToRemake(f)
      <3>1. updateStatus[f] = None
        BY <1>2 DEF Grouped
      <3>2. NoticeFinished(f, None, FALSE, disk)
        BY <2>2, <3>1 DEF NoNeedToRemake
      <3> QED
        BY <1>3, <2>2, <3>2
    <2>3. CASE RunEmptyRecipe(f)
      <3>1. NoticeFinished(f, Success, TRUE, disk) /\ make.cmds[f] = "empty"
        BY <2>3 DEF RunEmptyRecipe
      <3> QED
        BY <1>3, <3>1
    <2>4. CASE RemakeWithoutRecipe(f)
      <3>1. make.cmds[f] = "none"
        BY <2>4 DEF RemakeWithoutRecipe
      <3>2. Group(f) = {f}
        BY <1>1, <1>2, <3>1, SingleWithoutRecipe
      <3>3. NoticeFinished(f, Success, FALSE, disk) \/ NoticeFinished(f, Failed, FALSE, disk)
        BY <2>4 DEF RemakeWithoutRecipe
      <3> QED
        BY <1>3, <3>1, <3>2, <3>3
    <2> QED
      BY <2>1, <2>2, <2>3, <2>4
  <1>5. /\ Kept /\ OthersSame(f)
        /\ updated'[f] /\ updateStatus'[f] = (IF s = None THEN Success ELSE s)
        /\ \A g \in Files : Head1(g) # f => updateStatus'[g] = updateStatus[g]
    BY <1>1, <1>4, SettledMarks
  <1>6. lastMtime' = lastMtime
    BY <1>1, <1>4, NoticeFinishedTimes
  <1>7. Edge' = Edge /\ Running' = Running
    BY <1>1 DEF Edge, HackEdge, Head1, Running
  <1>8. QuietTimes
    BY <1>1, <1>5, <1>6, <1>7 DEF QuietTimes, FreshInv
  <1>9. ASSUME NEW h \in Heads, Done(h)', ~Done(h), make.cmds[h] = "recipe"
        PROVE  Rested(h)'
    <2>1. h = f
      <3>1. CASE h # f
        <4>1. updated'[h] = updated[h] /\ updateStatus'[h] = updateStatus[h]
          BY <1>5, <3>1 DEF OthersSame, Heads
        <4> QED
          BY <1>9, <4>1 DEF Done
      <3> QED
        BY <3>1
    <2>2. NoNeedToRemake(f)
      BY <1>3, <1>4, <1>5, <1>9, <2>1 DEF Done
    <2>3. ~MustMake(f) /\ Top.status = Success
      BY <2>2 DEF NoNeedToRemake, Decided
    <2>4. Knows(Top)
      <3>1. Known(frames)
        BY <1>1 DEF FreshInv, Waiters
      <3> QED
        BY <1>2, <3>1 DEF Known
    <2>5. FreshOnDisk(f)
      <3>1. make.cmds[f] # "none"
        BY <1>9, <2>1
      <3> QED
        BY <1>1, <2>3, <2>4, <3>1, MustMakeStale
    <2>6. FreshOnDisk(f)'
      BY <1>1, <1>7, <2>5 DEF FreshOnDisk, Oldest, Group, Head1, OrderOnly
    <2>7. ASSUME NEW e \in Edge, Head1(e[1]) = f PROVE Done(Head1(e[2]))'
      <3>1. e[2] \in Files /\ Head1(e[2]) \in Files
        BY <1>1, <1>2, <2>7, CountedEdges, HeadOfGroup
      <3>2. PICK d \in Edges(f) : d.edge = e /\ ~HackEdge(d.edge)
        BY <1>1, <1>2, <2>7, CountedEdges
      <3>3. Done(Head1(e[2]))
        BY <1>2, <2>3, <3>2
      <3> QED
        BY <1>1, <1>5, <3>1, <3>3 DEF Done, Kept, Head1
    <2>8. Rested(f)'
      BY <1>1, <1>7, <2>6, <2>7 DEF Rested, Head1
    <2> QED
      BY <2>1, <2>8
  <1>10. pc' = "die" \/ (pc' = "back" /\ frames' = Tail(frames))
    BY DEF GiveUp, NoNeedToRemake, RunEmptyRecipe, RemakeWithoutRecipe, Return
  <1>11. pc' \notin {"die", "exit"} => Known(Waiters)'
    BY <1>1, <1>2, <1>10, RestKnown
  <1> QED
    BY <1>8, <1>9, <1>10, <1>11, QuietFresh

LEMMA WaitFresh ==
    ASSUME FreshInv, OrderInv', NEW f \in Files, PrereqsRunning(f) \/ MustRemake(f)
    PROVE  FreshInv'
  <1>1. /\ Decide(f) /\ pc = "walk" /\ OrderInv /\ Cached
        /\ UNCHANGED <<make, deps, disk, lastMtime, children, started, updated, updateStatus>>
    BY DEF PrereqsRunning, MustRemake, Decided, Decide, given, times, procs, FreshInv
  <1>2. /\ frames # <<>> /\ f = Top.file /\ Top = frames[1] /\ 1 \in 1 .. Len(frames) /\ f \in Heads
    BY <1>1, AtDecision
  <1>3. QuietTimes /\ \A h \in Heads : Done(h)' <=> Done(h)
    BY <1>1, SameMarksQuiet
  <1>4. CASE PrereqsRunning(f)
    <2>1. pc' = "back" /\ frames' = Tail(frames)
      BY <1>4 DEF PrereqsRunning, Return
    <2> QED
      BY <1>1, <1>2, <1>3, <2>1, RestKnown, QuietFresh
  <1>5. CASE MustRemake(f)
    <2>1. /\ pc' = "new_job" /\ frames' = frames /\ MustMake(f) /\ ~Top.running /\ Top.status = Success
          /\ make.cmds[f] # "none"
      BY <1>5 DEF MustRemake, Decided
    <2>2. Knows(Top)
      <3>1. Known(frames)
        BY <1>1 DEF FreshInv, Waiters
      <3> QED
        BY <1>2, <3>1 DEF Known
    <2>3. Stale(f)
      BY <1>1, <2>1, <2>2, MustMakeStale
    <2>4. Stale(f)'
      BY <1>1, <1>2, <2>3, StaleKept
    <2>5. Stale(Top.file)'
      BY <1>2, <2>1, <2>4 DEF Top
    <2>6. Known(Waiters)'
      BY <1>1, <2>1, SameKnown
    <2> QED
      BY <1>3, <2>5, <2>6, QuietFresh
  <1> QED
    BY <1>4, <1>5

(* A recipe is started.                                                    *)
LEMMA NewJobFresh ==
    ASSUME FreshInv, OrderInv', NEW f \in Files, NewJob(f)
    PROVE  FreshInv'
  <1>1. /\ pc = "new_job" /\ f = Top.file /\ OrderInv /\ frames # <<>>
        /\ UNCHANGED <<make, deps, disk, lastMtime, updated, updateStatus>>
        /\ children' = [children EXCEPT ![f] = @ + 1] /\ children \in [Files -> Nat]
        /\ started' = started \cup {f} /\ Running \subseteq started
        /\ (pc' = "linear" /\ frames' = frames) \/ (pc' = "back" /\ frames' = Tail(frames))
    BY DEF NewJob, given, times, Return, FreshInv, OrderInv, TypeInv, TypeOK
  <1>2. Running' \subseteq started'
    BY <1>1 DEF Running
  <1>3. Edge' = Edge
    BY <1>1 DEF Edge, HackEdge, Head1
  <1>4. QuietTimes
    BY <1>1, <1>2, <1>3 DEF QuietTimes, Kept
  <1>5. \A h \in Heads : Done(h)' <=> Done(h)
    BY <1>1 DEF Done
  <1>6. Known(Waiters)'
    BY <1>1, RestKnown
  <1> QED
    BY <1>1, <1>4, <1>5, <1>6, QuietFresh

(* A child is reaped: what it has written belongs to its own group, which  *)
(* nothing works on, which no done file depends on, and whose times are    *)
(* fetched again.                                                          *)
LEMMA ReapTimes ==
    ASSUME OrderInv, Cached, NEW f \in Files, NEW r \in {Success, Failed}, NEW next, Reap(f, r, next)
    PROVE  Cached' /\ \A g \in Files : Head1(g) # f => disk'[g] = disk[g]
  <1>1. PICK written \in SUBSET (Group(f) \ make.phony) :
           disk' = [g \in Files |-> IF g \in written THEN clock + 1 ELSE disk[g]]
    BY DEF Reap
  <1>2. f \in Heads /\ commandState[f] = "running"
    BY ReapMarks DEF OrderInv
  <1>3. /\ NoticeFinished(f, r, commandState[f] = "running", disk')
        /\ lastMtime = disk /\ lastMtime \in [Files -> Nat] /\ make \in Makefiles
    BY DEF Reap, Cached, OrderInv, TypeInv, TypeOK
  <1>4. \A g \in Files : lastMtime'[g] = IF g \in Group(f) \ make.phony THEN disk'[g] ELSE lastMtime[g]
    BY <1>2, <1>3 DEF NoticeFinished
  <1>5. \A g \in Files : g \notin Group(f) \ make.phony => disk'[g] = disk[g]
    BY <1>1
  <1>6. \A g \in Files : lastMtime'[g] = disk'[g]
    BY <1>3, <1>4, <1>5
  <1>7. DOMAIN lastMtime' = Files /\ DOMAIN disk' = Files
        /\ lastMtime' = [g \in Files |-> lastMtime'[g]] /\ disk' = [g \in Files |-> disk'[g]]
    BY <1>1, <1>3 DEF NoticeFinished
  <1>8. Cached'
    BY <1>6, <1>7 DEF Cached
  <1>9. ASSUME NEW g \in Files, Head1(g) # f PROVE disk'[g] = disk[g]
    <2>1. g \notin Group(f)
      BY <1>2, <1>3, <1>9, HeadOfGroup DEF Heads
    <2> QED
      BY <1>5, <2>1
  <1> QED
    BY <1>8, <1>9

LEMMA ReapFresh ==
    ASSUME FreshInv, OrderInv', NEW f \in Files, NEW r \in {Success, Failed},
           NEW next \in {"more", "new_job", "linear", "die"}, Reap(f, r, next),
           \/ pc = next
           \/ pc = "pass" /\ next = "more"
    PROVE  FreshInv'
  <1>1. /\ OrderInv /\ Cached /\ TypeInv /\ Grouped /\ make \in Makefiles /\ DepsType
        /\ children \in [Files -> Nat] /\ frames \in Seq(Frame) /\ Running \subseteq started
    BY DEF FreshInv, OrderInv, TypeInv, TypeOK, DepsType
  <1>2. /\ f \in Heads /\ commandState[f] = "running" /\ ~updated[f] /\ Kept
        /\ updated'[f]
        /\ \A g \in Files : Head1(g) # f =>
              /\ commandState'[g] = commandState[g] /\ updated'[g] = updated[g]
              /\ updateStatus'[g] = updateStatus[g]
    BY <1>1, ReapMarks
  <1>3. /\ UNCHANGED <<make, deps, frames, started>> /\ children[f] > 0
        /\ children' = [children EXCEPT ![f] = @ - 1]
        /\ pc' = "die" \/ pc' = next
    BY DEF Reap, given, walk
  <1>4. Cached' /\ \A g \in Files : Head1(g) # f => disk'[g] = disk[g]
    BY <1>1, ReapTimes
  <1>5. \A g \in Files : updated[Head1(g)] => disk'[g] = disk[g]
    BY <1>2, <1>4
  <1>6. Running' \subseteq started' /\ f \in started
    BY <1>1, <1>3 DEF Running
  <1>7. Heads' = Heads /\ Edge' = Edge
    BY <1>3 DEF Heads, Head1, Edge, HackEdge
  <1>8. ASSUME NEW h \in Heads', Done(h)', h \notin started', make'.cmds[h] = "recipe"
        PROVE  Rested(h)'
    <2>1. h # f /\ h \in Heads /\ h \in Files /\ Head1(h) = h /\ h \notin started
      BY <1>3, <1>6, <1>7, <1>8 DEF Heads
    <2>2. Done(h) /\ updated[h]
      BY <1>2, <1>8, <2>1 DEF Done
    <2>3. Rested(h)
      BY <1>3, <1>8, <2>1, <2>2 DEF FreshInv
    <2> QED
      BY <1>1, <1>2, <1>3, <1>5, <1>7, <2>1, <2>2, <2>3, RestedKept
  <1>9. CASE pc' \in {"die", "exit"}
    BY <1>4, <1>6, <1>8, <1>9 DEF FreshInv
  <1>10. CASE pc' \notin {"die", "exit"}
    <2>1. /\ pc \notin {"die", "exit", "walk", "back"} /\ Stack /\ Chain(frames) /\ Known(Waiters)
          /\ (pc = "linear" <=> pc' = "linear") /\ (pc' = "new_job" => pc = "new_job")
      BY <1>1, <1>3, <1>10 DEF FreshInv, OrderInv, Stack
    <2>2. PICK fs : fs = Waiters
      OBVIOUS
    <2>3. fs \in Seq(Frame) /\ Chain(fs) /\ f \notin Stacked(fs)
      <3>1. CASE frames = <<>>
        <4>1. fs = <<>>
          <5>1. pc # "linear"
            BY <1>1, <3>1 DEF TypeInv, TypeOK
          <5> QED
            BY <2>2, <3>1, <5>1 DEF Waiters
        <4> QED
          BY <4>1 DEF Chain, Stacked
      <3>2. CASE frames # <<>> /\ pc = "linear"
        <4>1. fs = Tail(frames)
          BY <2>2, <3>2 DEF Waiters
        <4>2. /\ fs \in Seq(Frame) /\ Len(fs) = Len(frames) - 1 /\ Len(frames) \in Nat \ {0}
              /\ \A k \in 1 .. Len(frames) - 1 : fs[k] = frames[k + 1]
          BY <1>1, <3>2, <4>1, PoppedFrame
        <4>3. ASSUME NEW k \in 1 .. Len(fs) PROVE fs[k].file # f
          <5>1. k + 1 \in 1 .. Len(frames) /\ k + 1 > 1 /\ fs[k] = frames[k + 1]
            BY <4>2
          <5>2. Unmade(fs[k].file)
            BY <2>1, <5>1 DEF Stack, Held
          <5> QED
            BY <1>2, <5>2 DEF Unmade
        <4>4. Chain(fs)
          BY <1>1, <2>1, <3>2, <4>1, ChainPop
        <4> QED
          BY <4>2, <4>3, <4>4 DEF Stacked
      <3>3. CASE frames # <<>> /\ pc # "linear"
        <4>1. fs = frames /\ pc = "new_job"
          BY <2>1, <2>2, <3>3 DEF Waiters, Stack, OrderInv, TypeInv, TypeOK
        <4>2. ASSUME NEW k \in 1 .. Len(fs) PROVE fs[k].file # f
          <5>1. CASE k > 1
            BY <1>2, <2>1, <4>1, <5>1 DEF Stack, Held, Unmade
          <5>2. CASE ~(k > 1)
            <6>1. k = 1 /\ frames[1] = Top
              BY <1>1, <3>3, <5>2, PoppedFrame DEF Top
            <6> QED
              BY <1>2, <2>1, <4>1, <6>1 DEF Stack, Unmade
          <5> QED
            BY <5>1, <5>2
        <4> QED
          BY <1>1, <2>1, <4>1, <4>2 DEF Stacked
      <3> QED
        BY <3>1, <3>2, <3>3
    <2>4. Known(fs)'
      BY <1>1, <1>3, <1>4, <1>5, <2>1, <2>2, <2>3, KnownKept
    <2>5. Waiters' = fs
      BY <1>3, <2>1, <2>2 DEF Waiters
    <2>6. Known(Waiters)'
      BY <2>4, <2>5
    <2>7. ASSUME pc' = "new_job" PROVE Stale(Top.file)'
      <3>1. PICK h : h = Top.file
        OBVIOUS
      <3>2. pc = "new_job" /\ Stale(h) /\ ~Top.running /\ Top.status = Success
        BY <2>1, <2>7, <3>1 DEF FreshInv, Stack
      <3>3. /\ h \in Heads /\ Unmade(h)
            /\ \A d \in Edges(h) : HackEdge(d.edge) \/ Done(Head1(d.edge[2]))
        BY <1>1, <3>1, <3>2, AtDecision
      <3>4. h # f
        BY <1>2, <3>3 DEF Unmade
      <3>5. ASSUME NEW e \in Edge, Head1(e[1]) = h PROVE disk'[e[2]] = disk[e[2]]
        <4>1. e[2] \in Files
          BY DEF Edge
        <4>2. PICK d \in Edges(h) : d.edge = e /\ ~HackEdge(d.edge)
          BY <1>1, <3>3, <3>5, CountedEdges
        <4> QED
          BY <1>5, <3>3, <4>1, <4>2 DEF Done
      <3>6. Stale(h)'
        BY <1>1, <1>3, <1>4, <3>2, <3>3, <3>4, <3>5, StaleKept
      <3>7. Top'.file = h
        BY <1>3, <3>1 DEF Top
      <3> QED
        BY <3>6, <3>7
    <2> QED
      BY <1>4, <1>6, <1>8, <2>6, <2>7 DEF FreshInv
  <1> QED
    BY <1>9, <1>10

-----------------------------------------------------------------------------
(* The walk.  An activation that only looks further knows what it knew.    *)
LEMMA KnowsSame ==
    ASSUME NEW x, NEW y, Knows(x), y.file = x.file, y.mtime = x.mtime, y.must = x.must,
           y.running = x.running, y.status = x.status, UNCHANGED <<make, disk>>,
           \A d : d \in Edges(x.file)' \ y.left /\ ~HackEdge(d.edge)
                 <=> d \in Edges(x.file) \ x.left /\ ~HackEdge(d.edge)
    PROVE  Knows(y)'
  <1>1. /\ Group(x.file)' = Group(x.file) /\ Oldest(x.file)' = Oldest(x.file)
        /\ \A d : Counts(d)' <=> Counts(d)
        /\ \A p, t : Late(p, t)' <=> Late(p, t)
    BY DEF Group, Oldest, Counts, OrderOnly, HackEdge, Head1, Late
  <1>2. /\ \A g \in Oldest(x.file) : x.mtime <= disk[g]
        /\ IF x.mtime = Missing
           THEN \E g \in Group(x.file) : disk[g] = Missing
           ELSE \E g \in Oldest(x.file) : disk[g] = x.mtime
        /\ ~x.running /\ x.status = Success =>
              (x.must <=> \/ x.mtime = Missing
                          \/ \E d \in Edges(x.file) \ x.left :
                                Counts(d) /\ Late(d.edge[2], x.mtime))
    BY DEF Knows
  <1>3. (\E d \in Edges(x.file)' \ y.left : Counts(d) /\ Late(d.edge[2], x.mtime))
        <=> (\E d \in Edges(x.file) \ x.left : Counts(d) /\ Late(d.edge[2], x.mtime))
    BY DEF Counts
  <1>4. ~y.running /\ y.status = Success =>
              (y.must <=> \/ y.mtime = Missing
                          \/ \E d \in Edges(x.file)' \ y.left :
                                Counts(d) /\ Late(d.edge[2], y.mtime))
    BY <1>2, <1>3
  <1>5. /\ \A g \in Oldest(y.file)' : y.mtime <= disk'[g]
        /\ IF y.mtime = Missing
           THEN \E g \in Group(y.file)' : disk'[g] = Missing
           ELSE \E g \in Oldest(y.file)' : disk'[g] = y.mtime
    BY <1>1, <1>2
  <1>6. ~y.running /\ y.status = Success =>
              (y.must <=> \/ y.mtime = Missing
                          \/ \E d \in Edges(y.file)' \ y.left :
                                (Counts(d) /\ Late(d.edge[2], y.mtime))')
    BY <1>1, <1>4
  <1> QED
    BY <1>5, <1>6 DEF Knows

LEMMA UpdateFileKnown ==
    ASSUME FreshInv, NEW f \in Files, NEW below \in Seq(Frame), Known(below)', NEW marked,
           UpdateFile(f, marked, below), UNCHANGED <<make, deps, disk>>
    PROVE  Known(frames)' /\ pc' \in {"walk", "back"}
  <1>1. OrderInv /\ TypeInv /\ Cached
    BY DEF FreshInv, OrderInv
  <1>2. PICK x : x = NewFrame(f)
    OBVIOUS
  <1>3. x \in Frame /\ Sees(x) /\ Knows(x)
    BY <1>1, <1>2, NewFrameSees, NewFrameKnows
  <1>4. Knows(x)'
    BY <1>1, <1>3, KnowsKept
  <1>5. (pc' = "back" /\ frames' = below) \/ (pc' = "walk" /\ frames' = <<x>> \o below)
    BY <1>2, Zenon DEF UpdateFile, Pruned, Consider
  <1>6. PICK fs : fs = <<x>> \o below
    OBVIOUS
  <1>7. Known(fs)'
    <2>1. Known(<<x>> \o below)'
      BY <1>3, <1>4, KnownPush
    <2>2. fs = <<x>> \o below
      BY <1>6
    <2> QED
      BY <2>1, <2>2 DEF Known
  <1>8. CASE frames' = below
    BY <1>5, <1>8 DEF Known
  <1>9. CASE frames' = fs /\ pc' = "walk"
    BY <1>7, <1>9 DEF Known
  <1> QED
    BY <1>5, <1>6, <1>8, <1>9

LEMMA WalkGoalFresh ==
    ASSUME FreshInv, OrderInv', WalkGoal
    PROVE  FreshInv'
  <1>1. /\ goals[at] \in Files
        /\ UNCHANGED <<make, deps, disk, lastMtime, updated, updateStatus, children, started>>
        /\ UpdateFile(goals[at], updating, <<>>)
    <2>1. at \in Nat /\ at # 0 /\ at <= Len(goals) /\ goals \in Seq(Files)
      BY DEF WalkGoal, FreshInv, OrderInv, TypeInv, TypeOK
    <2>2. goals[at] \in Files
      BY <2>1
    <2> QED
      BY <2>2 DEF WalkGoal, given, times, marks, procs
  <1>2. <<>> \in Seq(Frame) /\ Known(<<>>)'
    BY DEF Known
  <1>3. Known(frames)' /\ pc' \in {"walk", "back"}
    BY <1>1, <1>2, UpdateFileKnown
  <1>4. QuietTimes /\ \A h \in Heads : Done(h)' <=> Done(h)
    BY <1>1, SameMarksQuiet
  <1>5. Known(Waiters)'
    <2>1. Waiters' = frames'
      BY <1>3 DEF Waiters
    <2> QED
      BY <1>3, <2>1 DEF Known
  <1> QED
    BY <1>3, <1>4, <1>5, QuietFresh

LEMMA CheckDepFresh ==
    ASSUME FreshInv, OrderInv', CheckDep
    PROVE  FreshInv'
  <1>1. /\ pc = "walk" /\ frames # <<>> /\ Top.left # {} /\ frames \in Seq(Frame)
        /\ UNCHANGED <<make, deps, disk, lastMtime, updated, updateStatus, children, started>>
        /\ UpdateFile(Prereq, updating \cup {Prereq},
                      <<[Top EXCEPT !.before = lastMtime[Prereq]]>> \o Tail(frames))
        /\ lastMtime \in [Files -> Nat] /\ OrderInv
    BY DEF CheckDep, AtPrereq, FreshInv, OrderInv, TypeInv, TypeOK, given, times, marks, procs
  <1>2. Top \in Frame /\ Top = frames[1] /\ 1 \in 1 .. Len(frames) /\ Prereq \in Files
    BY <1>1, CurrentEdge
  <1>3. PICK x : x = [Top EXCEPT !.before = lastMtime[Prereq]]
    OBVIOUS
  <1>4. /\ x \in Frame /\ x.file = Top.file /\ x.left = Top.left /\ x.running = Top.running
        /\ x.mtime = Top.mtime /\ x.must = Top.must /\ x.status = Top.status
    <2>1. lastMtime[Prereq] \in Nat
      BY <1>1, <1>2
    <2> QED
      BY <1>2, <1>3, <2>1 DEF Frame
  <1>5. Knows(x)'
    <2>1. Knows(Top)
      BY <1>1, <1>2 DEF FreshInv, Waiters, Known
    <2>2. Edges(x.file)' = Edges(x.file)
      BY <1>1 DEF Edges
    <2> QED
      BY <1>1, <1>4, <2>1, <2>2, KnowsSame
  <1>6. PICK fs : fs = Tail(frames)
    OBVIOUS
  <1>7. fs \in Seq(Frame) /\ Known(fs)'
    BY <1>1, <1>6, TailKnown
  <1>8. PICK b : b = <<x>> \o fs
    OBVIOUS
  <1>9. b \in Seq(Frame) /\ Known(b)'
    <2>1. Known(<<x>> \o fs)'
      BY <1>4, <1>5, <1>7, KnownPush
    <2>2. b \in Seq(Frame)
      BY <1>4, <1>7, <1>8, PushedFrame
    <2> QED
      BY <1>8, <2>1, <2>2 DEF Known
  <1>10. PICK marked : marked = updating \cup {Prereq}
    OBVIOUS
  <1>11. UpdateFile(Prereq, marked, b)
    BY <1>1, <1>3, <1>6, <1>8, <1>10
  <1>12. Known(frames)' /\ pc' \in {"walk", "back"}
    BY <1>1, <1>2, <1>9, <1>11, UpdateFileKnown
  <1>13. QuietTimes /\ \A h \in Heads : Done(h)' <=> Done(h)
    BY <1>1, SameMarksQuiet
  <1>14. Known(Waiters)'
    <2>1. Waiters' = frames'
      BY <1>12 DEF Waiters
    <2> QED
      BY <1>12, <2>1 DEF Known
  <1> QED
    BY <1>12, <1>13, <1>14, QuietFresh

(* A prerequisite that is done, and later than the target, counts.         *)
LEMMA CheckedDepFresh ==
    ASSUME Orderly, FreshInv, OrderInv', CheckedDep
    PROVE  FreshInv'
  <1> DEFINE new   == Larger(Top.status, ret)
             run   == Top.running \/ commandState[Prereq] \in InProgress
             stop  == new # Success /\ ~make.keepGoing
             binds == ~OrderOnly(Current.edge)
             moved == binds /\ ~run /\ (lastMtime[Prereq] # Top.before \/ Top.before = Missing)
             must  == Top.must \/ (binds /\ OutOfDate(Prereq, Top.mtime))
             X == [Top EXCEPT !.status = new, !.running = run,
                    !.must = must,
                    !.changed = @ \/ moved,
                    !.left = IF stop THEN {} ELSE @ \ {Current}]
  <1>1. /\ pc = "back" /\ frames # <<>> /\ Top.left # {} /\ pc' = "walk"
        /\ frames' = <<X>> \o Tail(frames)
        /\ UNCHANGED <<make, deps, disk, lastMtime, updated, updateStatus, children, started>>
    BY DEF CheckedDep, FreshInv, OrderInv, TypeInv, TypeOK, given, times, marks, procs
  <1>2. OrderInv /\ frames \in Seq(Frame) /\ Returned /\ Known(frames) /\ lastMtime = disk
        /\ ret \in Statuses
    BY <1>1 DEF FreshInv, Waiters, Cached, OrderInv, TypeInv, TypeOK
  <1>3. /\ Top \in Frame /\ Top = frames[1] /\ 1 \in 1 .. Len(frames) /\ Knows(Top)
        /\ Current \in Top.left /\ Current \in Edges(Top.file) /\ Top.left \subseteq Edges(Top.file)
        /\ Top.status \in Statuses
    BY <1>1, <1>2, CurrentEdge DEF Known, Sees, Frame
  <1>4. ~HackEdge(Current.edge)
    <2>1. Prereq \notin Stacked(frames)
      BY <1>1, <1>2 DEF Returned
    <2> QED
      BY <1>1, <1>2, <2>1, PrereqIsNew
  <1>5. PICK x : x = X
    OBVIOUS
  <1>6. /\ x.file = Top.file /\ x.status = new /\ x.running = run /\ x.mtime = Top.mtime
        /\ x.must = must /\ x.left = IF stop THEN {} ELSE Top.left \ {Current}
    BY <1>3, <1>5 DEF Frame
  <1>7. frames' = <<x>> \o Tail(frames)
    BY <1>1, <1>5
  <1>8. new = Success => Top.status = Success
    BY <1>2, <1>3 DEF Larger, Statuses, Success, None, Failed
  <1> HIDE DEF X, new
  <1>9. x \in Frame
    <2>1. Tail(frames) \in Seq(Frame) /\ frames' \in Seq(Frame)
      BY <1>1, <1>2, PoppedFrame DEF OrderInv, TypeInv, TypeOK
    <2>2. 1 \in 1 .. Len(frames') /\ frames'[1] = x
      BY <1>7, <2>1
    <2> QED
      BY <2>1, <2>2
  <1>10. Knows(x)
    <2>1. /\ \A g \in Oldest(x.file) : x.mtime <= disk[g]
          /\ IF x.mtime = Missing
             THEN \E g \in Group(x.file) : disk[g] = Missing
             ELSE \E g \in Oldest(x.file) : disk[g] = x.mtime
      BY <1>3, <1>6 DEF Knows
    <2>2. ASSUME ~x.running, x.status = Success
          PROVE  x.must <=> \/ x.mtime = Missing
                            \/ \E d \in Edges(x.file) \ x.left :
                                  Counts(d) /\ Late(d.edge[2], x.mtime)
      <3>1. ~Top.running /\ Top.status = Success /\ x.left = Top.left \ {Current}
        BY <1>6, <1>8, <2>2
      <3>2. Top.must <=> \/ Top.mtime = Missing
                         \/ \E d \in Edges(Top.file) \ Top.left :
                               Counts(d) /\ Late(d.edge[2], Top.mtime)
        BY <1>3, <3>1 DEF Knows
      <3>3. x.must <=> Top.must \/ (Counts(Current) /\ Late(Current.edge[2], Top.mtime))
        BY <1>2, <1>4, <1>6 DEF Counts, OutOfDate, Late, Prereq
      <3>4. Edges(Top.file) \ x.left = (Edges(Top.file) \ Top.left) \cup {Current}
        BY <1>3, <3>1
      <3> QED
        BY <1>6, <3>2, <3>3, <3>4
    <2> QED
      BY <2>1, <2>2 DEF Knows
  <1>11. Knows(x)'
    <2>1. Edges(x.file)' = Edges(x.file)
      BY <1>1 DEF Edges
    <2> QED
      BY <1>1, <1>10, <2>1, KnowsSame
  <1>12. PICK fs : fs = Tail(frames)
    OBVIOUS
  <1>13. fs \in Seq(Frame) /\ Known(fs)'
    BY <1>1, <1>12, TailKnown
  <1>14. Known(Waiters)'
    <2>1. Known(<<x>> \o fs)'
      BY <1>9, <1>11, <1>13, KnownPush
    <2>2. Waiters' = <<x>> \o fs
      BY <1>1, <1>7, <1>12 DEF Waiters
    <2> QED
      BY <2>1, <2>2 DEF Known
  <1>15. QuietTimes /\ \A h \in Heads : Done(h)' <=> Done(h)
    BY <1>1, SameMarksQuiet
  <1> QED
    BY <1>1, <1>14, <1>15, QuietFresh

(* A circular prerequisite that is dropped is none any more; what was      *)
(* found out about the others stays.                                       *)
LEMMA CircularFresh ==
    ASSUME FreshInv, OrderInv', CircularDropped
    PROVE  FreshInv'
  <1>1. /\ pc = "walk" /\ pc' = "walk" /\ frames # <<>> /\ Top.left # {}
        /\ frames' = <<[Top EXCEPT !.left = @ \ {Current}]>> \o Tail(frames)
        /\ deps' = IF HackEdge(Current.edge) THEN deps
                   ELSE [deps EXCEPT ![Owner] = Restrict(@, DOMAIN @ \ {Current.nth[2]})]
        /\ UNCHANGED <<make, disk, lastMtime, updated, updateStatus, children, started>>
        /\ OrderInv /\ Known(frames) /\ Running \subseteq started
    BY DEF CircularDropped, NextPrereq, AtPrereq, FreshInv, Waiters, OrderInv, TypeInv, TypeOK, given,
           times, marks, procs
  <1>2. /\ Top \in Frame /\ Top = frames[1] /\ 1 \in 1 .. Len(frames) /\ Top.file \in Heads
        /\ Current \in Edges(Top.file) /\ Current \in Top.left /\ Head1(Owner) = Top.file
    BY <1>1, CurrentEdge
  <1>3. /\ make \in Makefiles /\ DepsType /\ frames \in Seq(Frame) /\ Chain(frames)
    BY <1>1 DEF OrderInv, TypeInv, TypeOK, DepsType, Stack
  <1>4. ASSUME NEW h \in Heads
        PROVE  Edges(h)' = IF HackEdge(Current.edge) THEN Edges(h) ELSE Edges(h) \ {Current}
    <2>1. CASE HackEdge(Current.edge)
      BY <1>1, <2>1 DEF Edges
    <2>2. CASE ~HackEdge(Current.edge)
      BY <1>1, <2>2, EdgesDropped
    <2> QED
      BY <2>1, <2>2
  <1>5. ASSUME NEW h \in Heads, h # Top.file PROVE Current \notin Edges(h)
    <2>1. \A d \in Edges(h) : Head1(d.edge[1]) = h
      BY <1>3, EdgesOfGroup
    <2> QED
      BY <1>2, <1>5, <2>1 DEF Owner
  <1>6. PICK x : x = [Top EXCEPT !.left = @ \ {Current}]
    OBVIOUS
  <1>7. /\ x \in Frame /\ x.file = Top.file /\ x.left = Top.left \ {Current}
        /\ x.running = Top.running /\ x.mtime = Top.mtime /\ x.must = Top.must
        /\ x.status = Top.status
    BY <1>2, <1>6 DEF Frame
  <1>8. PICK b : b = <<x>> \o Tail(frames)
    OBVIOUS
  <1>9. /\ b \in Seq(Frame) /\ Len(b) = Len(frames) /\ b[1] = x /\ frames' = b
        /\ \A k \in 2 .. Len(frames) : b[k] = frames[k]
    BY <1>1, <1>3, <1>6, <1>7, <1>8, ReplacedFrame
  <1>10. ASSUME NEW k \in 1 .. Len(b) PROVE Knows(b[k])'
    <2>1. k \in 1 .. Len(frames) /\ Knows(frames[k]) /\ frames[k].file \in Heads
      BY <1>1, <1>3, <1>9 DEF Known, Chain, Sees
    <2>2. CASE k = 1
      <3>1. PICK y : y = frames[k]
        OBVIOUS
      <3>2. y = Top /\ y.file = x.file
        BY <1>2, <1>7, <2>2, <3>1
      <3>3. \A d : d \in Edges(y.file)' \ x.left /\ ~HackEdge(d.edge)
                   <=> d \in Edges(y.file) \ y.left /\ ~HackEdge(d.edge)
        BY <1>2, <1>4, <1>7, <3>2
      <3>4. Knows(x)'
        BY <1>1, <1>7, <2>1, <3>1, <3>2, <3>3, KnowsSame
      <3> QED
        BY <1>9, <2>2, <3>4
    <2>3. CASE k # 1
      <3>1. PICK y : y = frames[k]
        OBVIOUS
      <3>2. b[k] = y
        BY <1>9, <2>3, <3>1
      <3>3. y.file # Top.file
        BY <1>2, <1>3, <2>1, <2>3, <3>1 DEF Chain
      <3>4. Edges(y.file)' = Edges(y.file)
        BY <1>4, <1>5, <2>1, <3>1, <3>3
      <3>5. Knows(y)'
        BY <1>1, <2>1, <3>1, <3>4, KnowsSame
      <3> QED
        BY <3>2, <3>5
    <2> QED
      BY <2>2, <2>3
  <1>11. Known(Waiters)'
    <2>1. Waiters' = b
      BY <1>1, <1>9 DEF Waiters
    <2> QED
      BY <1>10, <2>1 DEF Known
  <1>12. Edge' \subseteq Edge
    <2>1. CASE HackEdge(Current.edge)
      BY <1>1, <2>1 DEF Edge, HackEdge, Head1
    <2>2. CASE ~HackEdge(Current.edge)
      BY <1>1, <2>2, DroppedEdge
    <2> QED
      BY <2>1, <2>2
  <1>13. QuietTimes
    BY <1>1, <1>12 DEF QuietTimes, Kept, Running
  <1>14. \A h \in Heads : Done(h)' <=> Done(h)
    BY <1>1 DEF Done
  <1> QED
    BY <1>1, <1>11, <1>13, <1>14, QuietFresh

(* The passes, the goals, and the return of new_job().                     *)
LEMMA PassFresh ==
    ASSUME FreshInv, OrderInv', BeginPass \/ EndPass \/ GoalBack
    PROVE  FreshInv'
  <1>1. /\ UNCHANGED <<make, deps, disk, lastMtime, updated, updateStatus, children, started, frames>>
        /\ pc' \in {"goal", "die", "pass"} /\ pc \in {"pass", "more", "goal", "back"} /\ frames = <<>>
    BY DEF BeginPass, EndPass, GoalBack, FreshInv, OrderInv, Stack, given, times, marks, walk, procs
  <1>2. QuietTimes /\ \A h \in Heads : Done(h)' <=> Done(h)
    BY <1>1, SameMarksQuiet
  <1>3. Known(Waiters)'
    BY <1>1, SameKnown
  <1> QED
    BY <1>1, <1>2, <1>3, QuietFresh

LEMMA LinearDoneFresh ==
    ASSUME FreshInv, OrderInv', LinearDone
    PROVE  FreshInv'
  <1>1. /\ UNCHANGED <<make, deps, disk, lastMtime, updated, updateStatus, children, started>>
        /\ pc = "linear" /\ pc' = "back" /\ frames' = Tail(frames) /\ frames # <<>>
    BY DEF LinearDone, Return, FreshInv, OrderInv, TypeInv, TypeOK, given, times, marks, procs
  <1>2. QuietTimes /\ \A h \in Heads : Done(h)' <=> Done(h)
    BY <1>1, SameMarksQuiet
  <1>3. Known(Waiters)'
    BY <1>1, RestKnown
  <1> QED
    BY <1>1, <1>2, <1>3, QuietFresh

LEMMA FreshInit == ASSUME Init PROVE FreshInv
  <1>1. OrderInv /\ pc = "pass" /\ frames = <<>> /\ lastMtime = disk
    BY OrderInit DEF Init
  <1>2. Running = {} /\ \A h \in Heads : ~Done(h)
    BY DEF Init, Running, Heads, Done
  <1> QED
    BY <1>1, <1>2 DEF FreshInv, Cached, Known, Waiters

LEMMA FreshStep == ASSUME Orderly, FreshInv, [Next]_vars PROVE FreshInv'
  <1>1. OrderInv' /\ OrderInv
    BY OrderStep DEF FreshInv
  <1>2. CASE PassReaps \/ NewJobReaps \/ LinearReaps
    BY <1>1, <1>2, ReapFresh DEF PassReaps, NewJobReaps, LinearReaps
  <1>3. CASE Die
    <2>1. CASE Running = {}
      <3>1. /\ pc' = "exit"
            /\ UNCHANGED <<make, deps, disk, lastMtime, updated, updateStatus, children, started>>
        BY <1>3, <2>1 DEF Die, given, times, marks, procs
      <3>2. QuietTimes /\ \A h \in Heads : Done(h)' <=> Done(h)
        BY <3>1, SameMarksQuiet
      <3> QED
        BY <1>1, <3>1, <3>2, QuietFresh
    <2>2. CASE Running # {}
      BY <1>1, <1>3, <2>2, ReapFresh DEF Die
    <2> QED
      BY <2>1, <2>2
  <1>4. CASE BeginPass \/ EndPass \/ GoalBack \/ LinearDone
    BY <1>1, <1>4, PassFresh, LinearDoneFresh
  <1>5. CASE WalkGoal \/ CircularDropped \/ CheckDep \/ CheckedDep
    BY <1>1, <1>5, WalkGoalFresh, CircularFresh, CheckDepFresh, CheckedDepFresh
  <1>6. ASSUME NEW f \in Files,
               \/ PrereqsRunning(f) \/ GiveUp(f) \/ NoNeedToRemake(f)
               \/ RemakeWithoutRecipe(f) \/ RunEmptyRecipe(f) \/ MustRemake(f) \/ NewJob(f)
        PROVE  FreshInv'
    BY <1>1, <1>6, WaitFresh, DecisionFresh, NewJobFresh
  <1>7. CASE UNCHANGED vars
    <2>1. /\ UNCHANGED <<make, deps, disk, lastMtime, updated, updateStatus, children, started>>
          /\ frames' = frames /\ pc' = pc
      BY <1>7 DEF vars, given, times, marks, walk, procs
    <2>2. QuietTimes /\ \A h \in Heads : Done(h)' <=> Done(h)
      BY <2>1, SameMarksQuiet
    <2>3. pc' \notin {"die", "exit"} => Known(Waiters)'
      BY <2>1, SameKnown
    <2>4. ASSUME pc' = "new_job" PROVE Stale(Top.file)'
      <3>1. PICK h : h = Top.file
        OBVIOUS
      <3>2. h \in Heads /\ Stale(h)
        BY <1>1, <2>1, <2>4, <3>1, AtDecision DEF FreshInv
      <3>3. Stale(h)'
        BY <1>1, <2>1, <3>2, StaleKept
      <3>4. Top'.file = h
        BY <2>1, <3>1 DEF Top
      <3> QED
        BY <3>3, <3>4
    <2> QED
      BY <1>1, <2>2, <2>3, <2>4, QuietFresh
  <1> QED
    BY <1>2, <1>3, <1>4, <1>5, <1>6, <1>7 DEF Next

(* A target with a recipe that kmk did not run is up to date on the disk,  *)
(* whatever was remade while the walk went on, and for every set of        *)
(* orderly makefiles.                                                      *)
THEOREM MadeUpToDate == ASSUME Orderly PROVE Spec => []UpToDate
  <1>1. Init => FreshInv
    BY FreshInit
  <1>2. FreshInv /\ [Next]_vars => FreshInv'
    BY FreshStep
  <1>3. FreshInv => UpToDate
    <2> SUFFICES ASSUME FreshInv, NEW h \in Heads, Made(h) = "done", h \notin started,
                        make.cmds[h] = "recipe"
                 PROVE  FreshOnDisk(h)
      BY DEF UpToDate
    <2>1. Done(h)
      BY DEF Made, Done
    <2> QED
      BY <2>1 DEF FreshInv, Rested
  <1> QED
    BY <1>1, <1>2, <1>3, PTL DEF Spec

(* A recipe is started only for a target that is out of date on the disk   *)
(* at that moment, or of which a member is missing.                        *)
LEMMA StartsStale ==
    ASSUME FreshInv, [Next]_vars, NEW h \in Files, children'[h] > children[h]
    PROVE  Stale(h)
  <1>1. children \in [Files -> Nat]
    BY DEF FreshInv, OrderInv, TypeInv, TypeOK
  <1>2. ASSUME UNCHANGED children PROVE FALSE
    BY <1>1, <1>2
  <1>3. ASSUME NEW f \in Files, children' = [children EXCEPT ![f] = @ - 1] PROVE FALSE
    BY <1>1, <1>3
  <1>4. ASSUME NEW f \in Files, NEW r, NEW next, Reap(f, r, next) PROVE FALSE
    BY <1>3, <1>4 DEF Reap
  <1>5. CASE PassReaps \/ NewJobReaps \/ LinearReaps \/ Die
    BY <1>2, <1>4, <1>5 DEF PassReaps, NewJobReaps, LinearReaps, Die, procs
  <1>6. CASE \/ BeginPass \/ WalkGoal \/ GoalBack \/ EndPass \/ CircularDropped \/ CheckDep
             \/ CheckedDep \/ LinearDone \/ UNCHANGED vars
    BY <1>2, <1>6 DEF BeginPass, WalkGoal, GoalBack, EndPass, CircularDropped, CheckDep, CheckedDep,
                      LinearDone, vars, procs
  <1>7. ASSUME NEW f \in Files,
               \/ PrereqsRunning(f) \/ GiveUp(f) \/ NoNeedToRemake(f)
               \/ RemakeWithoutRecipe(f) \/ RunEmptyRecipe(f) \/ MustRemake(f)
        PROVE  FALSE
    BY <1>2, <1>7 DEF PrereqsRunning, GiveUp, NoNeedToRemake, RemakeWithoutRecipe, RunEmptyRecipe,
                      MustRemake, procs
  <1>8. ASSUME NEW f \in Files, NewJob(f) PROVE Stale(h)
    <2>1. /\ pc = "new_job" /\ f = Top.file /\ children' = [children EXCEPT ![f] = @ + 1]
      BY <1>8 DEF NewJob
    <2>2. h = f
      BY <1>1, <2>1
    <2> QED
      BY <2>1, <2>2 DEF FreshInv
  <1> QED
    BY <1>5, <1>6, <1>7, <1>8 DEF Next

(* No recipe is run without need, for every set of orderly makefiles.      *)
THEOREM NoneNeedless == ASSUME Orderly PROVE Spec => NoNeedlessRecipe
  <1>1. Init => FreshInv
    BY FreshInit
  <1>2. FreshInv /\ [Next]_vars => FreshInv'
    BY FreshStep
  <1>3. FreshInv /\ [Next]_vars =>
           [\A h \in Files : children'[h] > children[h] =>
              ~FreshOnDisk(h) \/ \E g \in Group(h) : disk[g] = Missing]_vars
    BY StartsStale DEF Stale
  <1> QED
    BY <1>1, <1>2, <1>3, PTL DEF Spec, NoNeedlessRecipe
=============================================================================
