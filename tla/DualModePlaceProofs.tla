------------------------ MODULE DualModePlaceProofs ------------------------
(***************************************************************************)
(* Proofs about DualMode: where the entries of the two lists are.  The     *)
(* migration of a switch looks at the policy set and never at the mode,    *)
(* so that the right variant is visible only because every call of it has  *)
(* been matched by a mode change and every variant has been put on the     *)
(* right side when it was installed.                                       *)
(*                                                                         *)
(* ModeInv says so of the different-package applications (OnSide), with    *)
(* what an installation between two steps and a boot not yet published     *)
(* need to keep it.  PlaceInv says it of the others (Laid), whose side the *)
(* persisted set or, without one, the mode determines.  Together they give *)
(* the lists as a function of the rows, the set and the mode (Booted), the *)
(* same that a boot computes: hence a restart changes nothing, and what a  *)
(* failed switch restores is what it found.                                *)
(***************************************************************************)
EXTENDS DualModeProofs

\* The place of a different-package entry in the lists of a device of mode m.
OnSide(x, m) ==
    /\ Diff(x.vis.policy) => x.vis.clone = m
    /\ Diff(x.tmp.policy) => x.tmp.clone # m

\* Whether a policy set or, without one, the mode hides another application.
HiddenBy(p, set, m) ==
    IF set # {} THEN p # UNSPECIFIED /\ p \notin set ELSE ShouldBeHidden(p, m)

\* The place of such an application's entry.
Laid(x, set, m) ==
    /\ x.vis # Absent /\ ~Diff(x.vis.policy) => x.tmp = Absent /\ ~HiddenBy(x.vis.policy, set, m)
    /\ x.tmp # Absent /\ ~Diff(x.tmp.policy) => x.vis = Absent /\ HiddenBy(x.tmp.policy, set, m)

\* What the boot makes of the rows of a name.
Booted(p, q, set, m) ==
    IF Diff(p) \/ q # NoPolicy
    THEN IF m THEN Pair(EntryOf(q, TRUE), EntryOf(p, FALSE))
         ELSE Pair(EntryOf(p, FALSE), EntryOf(q, TRUE))
    ELSE IF p # NoPolicy /\ HiddenBy(p, set, m) THEN Pair(Absent, EntryOf(p, FALSE))
    ELSE Pair(EntryOf(p, FALSE), Absent)

----------------------------------------------------------------------------
\* The passes over the lists, and what they leave of a name.

\* Neither classification moves entries of different-package applications.
LEMMA DiffStays ==
    ASSUME NEW v, NEW w, NEW set, NEW m, v = Absent \/ Diff(v.policy), w = Absent \/ Diff(w.policy)
    PROVE  /\ ClassifyByPolicy(Pair(v, w), set) = Pair(v, w)
           /\ ClassifyByDeviceMode(Pair(v, w), m) = Pair(v, w)
<1> DEFINE x == Pair(v, w)
<1>1. x.vis = v /\ x.tmp = w
  BY Zenon, PairHas
<1>2. /\ \A p : Diff(p) => p \notin {MAIN_ONLY, SUB_ONLY}
      /\ NoPolicy \notin {MAIN_ONLY, SUB_ONLY} /\ Absent.policy = NoPolicy
  BY DEF Diff, IsDiffPackageCategory, MAIN_ONLY, SUB_ONLY, NoPolicy, Absent, Entry
<1> HIDE DEF x
<1>3. v.policy \notin {MAIN_ONLY, SUB_ONLY} /\ w.policy \notin {MAIN_ONLY, SUB_ONLY}
  BY Zenon, <1>2
<1>4. ClassifyByPolicy(x, set) = x
  BY Zenon, <1>1 DEF ClassifyByPolicy, Diff
<1>5. ClassifyByDeviceMode(x, m) = x
  BY Zenon, <1>1, <1>3 DEF ClassifyByDeviceMode, ShouldBeHidden
<1> QED
  BY Zenon, <1>4, <1>5 DEF x

\* The rows of a name that are entries of the lists.
LEMMA RowFacts ==
    ASSUME NEW p \in Rows, NEW q \in Rows
    PROVE  /\ Entry(p, FALSE) = EntryOf(p, FALSE) /\ (q # NoPolicy => Entry(q, TRUE) = EntryOf(q, TRUE))
           /\ EntryOf(p, FALSE) = Absent <=> p = NoPolicy
           /\ EntryOf(p, FALSE).policy = p /\ EntryOf(p, FALSE).clone = FALSE
           /\ EntryOf(q, TRUE) = Absent <=> q = NoPolicy
           /\ EntryOf(q, TRUE).policy = q /\ EntryOf(q, TRUE).clone = (q # NoPolicy)
           /\ ~Diff(NoPolicy) /\ Absent.policy = NoPolicy /\ ~ShouldBeHidden(NoPolicy, TRUE)
<1>1. ~Diff(NoPolicy) /\ ~ShouldBeHidden(NoPolicy, TRUE)
  BY DEF Diff, IsDiffPackageCategory, ShouldBeHidden, MAIN_ONLY, SUB_ONLY, NoPolicy
<1>2. Entry(p, FALSE) = EntryOf(p, FALSE) /\ (q # NoPolicy => Entry(q, TRUE) = EntryOf(q, TRUE))
  BY Zenon DEF EntryOf, Absent
<1>3. /\ EntryOf(p, FALSE) = Absent <=> p = NoPolicy
      /\ EntryOf(p, FALSE).policy = p /\ EntryOf(p, FALSE).clone = FALSE
      /\ EntryOf(q, TRUE) = Absent <=> q = NoPolicy
      /\ EntryOf(q, TRUE).policy = q /\ EntryOf(q, TRUE).clone = (q # NoPolicy)
  BY Zenon, EntryOfFields
<1>4. Absent.policy = NoPolicy
  BY Zenon, Fields
<1> QED
  BY Zenon, <1>1, <1>2, <1>3, <1>4

\* In the secondary mode the boot shows the clone.
LEMMA Restored ==
    ASSUME NEW p \in Rows, NEW q \in Rows, Fit(p, q), Diff(p) \/ q # NoPolicy
    PROVE  RestoreSecondary(Pair(EntryOf(p, FALSE), EntryOf(q, TRUE))) = Pair(EntryOf(q, TRUE), EntryOf(p, FALSE))
<1> DEFINE v == EntryOf(p, FALSE)
           w == EntryOf(q, TRUE)
           x == Pair(v, w)
<1>1. /\ v.policy = p /\ v.clone = FALSE /\ w.policy = q /\ w.clone = (q # NoPolicy)
      /\ w = Absent <=> q = NoPolicy
      /\ ~Diff(NoPolicy)
  BY Zenon, RowFacts
<1> HIDE DEF v, w
<1>2. x.vis = v /\ x.tmp = w
  BY Zenon, PairHas
<1> HIDE DEF x
<1>3. CASE q # NoPolicy
  <2>1. Diff(q)
    BY Zenon, <1>3 DEF Fit
  <2>2. Pair(w, v).vis = w
    BY Zenon, PairHas
  <2>3. RestoreSecondary(x) = Pair(w, v)
    BY Zenon, <1>1, <1>2, <1>3, <2>1, <2>2 DEF RestoreSecondary, Diff
  <2> QED
    BY Zenon, <2>3 DEF x, v, w
<1>4. CASE q = NoPolicy
  <2>1. RestoreSecondary(x) = Pair(Absent, v)
    BY Zenon, <1>1, <1>2, <1>4 DEF RestoreSecondary, Diff
  <2> QED
    BY Zenon, <1>1, <1>4, <2>1 DEF x, v, w
<1> QED
  BY Zenon, <1>3, <1>4

\* What the boot makes of the rows: a different-package application's variant of
\* the current mode is visible, and any other is where the policy set or, without
\* one, the mode has it.
LEMMA BootValue ==
    ASSUME NEW p \in Rows, NEW q \in Rows, NEW set, NEW m \in BOOLEAN, Fit(p, q)
    PROVE  Boot(p, q, set, m) = Booted(p, q, set, m)
<1> DEFINE v == EntryOf(p, FALSE)
           w == EntryOf(q, TRUE)
           x0 == Pair(Entry(p, FALSE), Absent)
           x1 == IF set # {} THEN ClassifyByPolicy(x0, set) ELSE x0
           x2 == IF IsDiffPackageCategory(q) THEN Pair(x1.vis, Entry(q, TRUE)) ELSE x1
           x3 == IF m THEN RestoreSecondary(x2) ELSE x2
<1>1. Boot(p, q, set, m) = IF set = {} THEN ClassifyByDeviceMode(x3, m) ELSE x3
  BY Zenon DEF Boot
<1>2. /\ Entry(p, FALSE) = v /\ (q # NoPolicy => Entry(q, TRUE) = w)
      /\ v = Absent <=> p = NoPolicy
      /\ v.policy = p /\ v.clone = FALSE
      /\ w = Absent <=> q = NoPolicy
      /\ w.policy = q /\ w.clone = (q # NoPolicy)
      /\ ~Diff(NoPolicy) /\ Absent.policy = NoPolicy
  BY Zenon, RowFacts
<1>3. x0 = Pair(v, Absent)
  BY Zenon, <1>2
<1>4. Pair(v, Absent).vis = v /\ Pair(v, Absent).tmp = Absent /\ Pair(Absent, v).vis = Absent /\ Pair(Absent, v).tmp = v
  BY Zenon, PairHas
<1> HIDE DEF x0
<1>5. CASE Diff(p) \/ q # NoPolicy
  <2>1. (p = NoPolicy \/ Diff(p)) /\ (q = NoPolicy \/ Diff(q))
    BY Zenon, <1>5 DEF Fit
  <2>2. x1 = Pair(v, Absent)
    BY Zenon, <1>2, <1>3, <2>1, DiffStays
  <2> HIDE DEF x1
  <2>3. x2 = Pair(v, w)
    BY Zenon, <1>2, <1>4, <2>1, <2>2 DEF Diff
  <2> HIDE DEF x2
  <2>4. x3 = IF m THEN Pair(w, v) ELSE Pair(v, w)
    BY Zenon, <1>5, <2>3, Restored
  <2> HIDE DEF x3
  <2>5. ClassifyByDeviceMode(Pair(w, v), m) = Pair(w, v) /\ ClassifyByDeviceMode(Pair(v, w), m) = Pair(v, w)
    BY Zenon, <1>2, <2>1, DiffStays
  <2>6. Boot(p, q, set, m) = IF m THEN Pair(w, v) ELSE Pair(v, w)
    BY Zenon, <1>1, <2>4, <2>5
  <2> QED
    BY Zenon, <1>5, <2>6 DEF Booted
<1>6. CASE ~Diff(p) /\ q = NoPolicy
  <2> DEFINE hidden == set # {} /\ p # NoPolicy /\ p # UNSPECIFIED /\ p \notin set
  <2>1. x1 = IF hidden THEN Pair(Absent, v) ELSE Pair(v, Absent)
    BY Zenon, <1>2, <1>3, <1>4, <1>6 DEF ClassifyByPolicy, Diff
  <2> HIDE DEF x1
  <2>2. x2 = x1
    BY Zenon, <1>2, <1>6 DEF Diff
  <2> HIDE DEF x2
  <2>3. RestoreSecondary(Pair(Absent, v)) = Pair(Absent, v) /\ RestoreSecondary(Pair(v, Absent)) = Pair(v, Absent)
    BY Zenon, <1>2, <1>4, <1>6 DEF RestoreSecondary, Diff
  <2>4. x3 = IF hidden THEN Pair(Absent, v) ELSE Pair(v, Absent)
    BY Zenon, <2>1, <2>2, <2>3
  <2> HIDE DEF x3
  <2>5. CASE set # {}
    <3>1. Boot(p, q, set, m) = IF hidden THEN Pair(Absent, v) ELSE Pair(v, Absent)
      BY Zenon, <1>1, <2>4, <2>5
    <3>2. hidden <=> p # NoPolicy /\ HiddenBy(p, set, m)
      BY Zenon, <2>5 DEF HiddenBy
    <3> QED
      BY Zenon, <1>6, <3>1, <3>2 DEF Booted
  <2>6. CASE set = {}
    <3>1. x3 = Pair(v, Absent)
      BY Zenon, <2>4, <2>6
    <3>2. NoPolicy \notin {MAIN_ONLY, SUB_ONLY}
      BY DEF NoPolicy, MAIN_ONLY, SUB_ONLY
    <3>3. Boot(p, q, set, m) = IF ShouldBeHidden(p, m) THEN Pair(Absent, v) ELSE Pair(v, Absent)
      BY Zenon, <1>1, <1>2, <1>4, <2>6, <3>1, <3>2 DEF ClassifyByDeviceMode
    <3>4. ShouldBeHidden(p, m) <=> p # NoPolicy /\ HiddenBy(p, set, m)
      BY Zenon, <2>6, <3>2 DEF HiddenBy, ShouldBeHidden
    <3> QED
      BY Zenon, <1>6, <3>3, <3>4 DEF Booted
  <2> QED
    BY Zenon, <2>5, <2>6
<1> QED
  BY Zenon, <1>2, <1>5, <1>6

\* The entries that an application's rows call for, and no others, in the place
\* of a mode are the ones the boot would make of the rows.
LEMMA BootUnique ==
    ASSUME NEW p \in Rows, NEW q \in Rows, NEW set, NEW m \in BOOLEAN, Fit(p, q),
           NEW x \in GoodPairs, Shown(x.vis, x.tmp, p, q), OnSide(x, m), Laid(x, set, m)
    PROVE  x = Boot(p, q, set, m)
<1> DEFINE v == EntryOf(p, FALSE)
           w == EntryOf(q, TRUE)
<1>1. /\ v = Absent <=> p = NoPolicy
      /\ v.policy = p /\ v.clone = FALSE
      /\ w = Absent <=> q = NoPolicy
      /\ w.policy = q /\ w.clone = (q # NoPolicy)
      /\ ~Diff(NoPolicy)
  BY Zenon, RowFacts
<1>2. \/ x = Pair(v, w) /\ x.vis = v /\ x.tmp = w
      \/ x = Pair(w, v) /\ x.vis = w /\ x.tmp = v
  BY Zenon, PairFields DEF Shown
<1>3. Boot(p, q, set, m) = Booted(p, q, set, m)
  BY Zenon, BootValue
<1>4. q # NoPolicy => Diff(q)
  BY Zenon DEF Fit
<1> HIDE DEF v, w
<1>5. CASE Diff(p) \/ q # NoPolicy
  <2>1. Booted(p, q, set, m) = IF m THEN Pair(w, v) ELSE Pair(v, w)
    BY Zenon, <1>5 DEF Booted, v, w
  <2>2. CASE x = Pair(v, w) /\ x.vis = v /\ x.tmp = w
    <3>1. ~m
      BY Zenon, <1>1, <1>4, <1>5, <2>2 DEF OnSide
    <3> QED
      BY Zenon, <1>3, <2>1, <2>2, <3>1
  <2>3. CASE x = Pair(w, v) /\ x.vis = w /\ x.tmp = v
    <3>1. m
      BY Zenon, <1>1, <1>4, <1>5, <2>3 DEF OnSide
    <3> QED
      BY Zenon, <1>3, <2>1, <2>3, <3>1
  <2> QED
    BY Zenon, <1>2, <2>2, <2>3
<1>6. CASE ~Diff(p) /\ q = NoPolicy
  <2>1. Booted(p, q, set, m) = IF p # NoPolicy /\ HiddenBy(p, set, m) THEN Pair(Absent, v) ELSE Pair(v, Absent)
    BY Zenon, <1>6 DEF Booted, v
  <2>2. w = Absent
    BY Zenon, <1>1, <1>6
  <2>3. CASE p = NoPolicy
    BY Zenon, <1>1, <1>2, <1>3, <2>1, <2>2, <2>3
  <2>4. CASE p # NoPolicy /\ x = Pair(v, w) /\ x.vis = v /\ x.tmp = w
    <3>1. ~HiddenBy(p, set, m)
      BY Zenon, <1>1, <1>6, <2>4 DEF Laid
    <3> QED
      BY Zenon, <1>3, <2>1, <2>2, <2>4, <3>1
  <2>5. CASE p # NoPolicy /\ x = Pair(w, v) /\ x.vis = w /\ x.tmp = v
    <3>1. HiddenBy(p, set, m)
      BY Zenon, <1>1, <1>6, <2>5 DEF Laid
    <3> QED
      BY Zenon, <1>3, <2>1, <2>2, <2>5, <3>1
  <2> QED
    BY Zenon, <1>2, <2>3, <2>4, <2>5
<1> QED
  BY Zenon, <1>5, <1>6

\* Entries that the mode switch can move: two are of a different-package
\* application, and a hidden one has a policy.
Paired(x) == x.vis # Absent /\ x.tmp # Absent => Diff(x.vis.policy) /\ Diff(x.tmp.policy)
Specified(x) == x.tmp # Absent => x.tmp.policy # UNSPECIFIED

\* The boot puts every entry in its place.
LEMMA BootLays ==
    ASSUME NEW p \in Rows, NEW q \in Rows, NEW set, NEW m \in BOOLEAN, Fit(p, q),
           NEW x, x = Boot(p, q, set, m)
    PROVE  OnSide(x, m) /\ Laid(x, set, m) /\ Specified(x)
<1> DEFINE v == EntryOf(p, FALSE)
           w == EntryOf(q, TRUE)
<1>1. /\ v = Absent <=> p = NoPolicy
      /\ v.policy = p /\ v.clone = FALSE
      /\ w = Absent <=> q = NoPolicy
      /\ w.policy = q /\ w.clone = (q # NoPolicy)
      /\ ~Diff(NoPolicy) /\ Absent.policy = NoPolicy
  BY Zenon, RowFacts
<1>2. q # NoPolicy => Diff(q) /\ (p # NoPolicy => Diff(p))
  BY Zenon DEF Fit
<1>3. x = Booted(p, q, set, m)
  BY Zenon, BootValue
<1>4. ~Diff(UNSPECIFIED) /\ ~ShouldBeHidden(UNSPECIFIED, m)
  BY DEF Diff, IsDiffPackageCategory, ShouldBeHidden, MAIN_ONLY, SUB_ONLY, UNSPECIFIED
<1>5. \A e, f : Pair(e, f).vis = e /\ Pair(e, f).tmp = f
  BY Zenon, PairHas
<1>6. CASE Diff(p) \/ q # NoPolicy
  <2>1. x = IF m THEN Pair(w, v) ELSE Pair(v, w)
    BY Zenon, <1>3, <1>6 DEF Booted
  <2> HIDE DEF v, w
  <2>2. CASE m
    <3>1. x.vis = w /\ x.tmp = v
      BY Zenon, <1>5, <2>1, <2>2
    <3> QED
      BY Zenon, <1>1, <1>2, <1>4, <1>6, <2>2, <3>1 DEF OnSide, Laid, Specified
  <2>3. CASE ~m
    <3>1. x.vis = v /\ x.tmp = w
      BY Zenon, <1>5, <2>1, <2>3
    <3> QED
      BY Zenon, <1>1, <1>2, <1>4, <1>6, <2>3, <3>1 DEF OnSide, Laid, Specified
  <2> QED
    BY Zenon, <2>2, <2>3
<1>7. CASE ~Diff(p) /\ q = NoPolicy
  <2>1. x = IF p # NoPolicy /\ HiddenBy(p, set, m) THEN Pair(Absent, v) ELSE Pair(v, Absent)
    BY Zenon, <1>3, <1>7 DEF Booted
  <2> HIDE DEF v, w
  <2>2. CASE p # NoPolicy /\ HiddenBy(p, set, m)
    <3>1. x.vis = Absent /\ x.tmp = v
      BY Zenon, <1>5, <2>1, <2>2
    <3>2. p # UNSPECIFIED
      BY Zenon, <1>4, <2>2 DEF HiddenBy
    <3> QED
      BY Zenon, <1>1, <1>7, <2>2, <3>1, <3>2 DEF OnSide, Laid, Specified
  <2>3. CASE ~(p # NoPolicy /\ HiddenBy(p, set, m))
    <3>1. x.vis = v /\ x.tmp = Absent
      BY Zenon, <1>5, <2>1, <2>3
    <3> QED
      BY Zenon, <1>1, <1>7, <2>3, <3>1 DEF OnSide, Laid, Specified
  <2> QED
    BY Zenon, <2>2, <2>3
<1> QED
  BY Zenon, <1>6, <1>7

----------------------------------------------------------------------------
\* The visible variant follows the mode.

\* The mode that the lists are arranged for: the current one or, between a mode
\* change and its switch, the one before.
TrackedMode == IF env.pending THEN ~secondary ELSE secondary

\* The caller's contract, and the exceptions to what it ensures.
Lawful == env.contract /\ ~env.adrift /\ Orderly

\* A mode change is pending only when nothing is being installed.
Quiet == env.pending => AllIdle /\ boot = "up"

\* A started installation works on the variant of its effective name.
SameVariant(r) == r.pc = "started" => r.clone = r.key

Tracked ==
    /\ \A n \in Names : OnSide(lists[n], TrackedMode)
    /\ Quiet
    /\ \A t \in Tasks : SameVariant(task[t])

\* The inductive invariant.
ModeInv == RecordsInv /\ (Lawful => Tracked)

\* The passes of an OTA start with parsing.
LEMMA OtaParsed ==
    ASSUME NEW n, NEW p, NEW rest
    PROVE  NormalPass(n, p, rest).pc = "parsed" /\ CrossPass(n, p, rest).pc = "parsed"
  BY DEF NormalPass, CrossPass, Pass

\* What the agreement of the records says of two entries.
LEMMA AgreePaired ==
    ASSUME CloneInv, Agree, NEW n \in Names
    PROVE  Paired(lists[n])
<1> SUFFICES ASSUME lists[n].vis # Absent, lists[n].tmp # Absent
             PROVE  Diff(lists[n].vis.policy) /\ Diff(lists[n].tmp.policy)
  BY Zenon DEF Paired
<1>1. /\ Shown(lists[n].vis, lists[n].tmp, row[<<n, FALSE>>], row[<<n, TRUE>>])
      /\ Fit(row[<<n, FALSE>>], row[<<n, TRUE>>])
      /\ row[<<n, FALSE>>] \in Rows /\ row[<<n, TRUE>>] \in Rows
  BY Zenon DEF Agree, NameInv, Exact, CloneInv, RowsGood, Keys
<1>2. PICK p \in Rows, q \in Rows : p = row[<<n, FALSE>>] /\ q = row[<<n, TRUE>>]
  BY Zenon, <1>1
<1>3. /\ EntryOf(p, FALSE) = Absent <=> p = NoPolicy
      /\ EntryOf(q, TRUE) = Absent <=> q = NoPolicy
      /\ EntryOf(p, FALSE).policy = p /\ EntryOf(q, TRUE).policy = q
  BY Zenon, RowFacts
<1> QED
  BY Zenon, <1>1, <1>2, <1>3 DEF Fit, Shown

\* NextPass: the thread is at the beginning of a pass, or idle.
LEMMA NextParsed ==
    ASSUME CloneInv, NEW t \in Tasks, NextPass(t)
    PROVE  task'[t].pc # "started" /\ \A u \in Tasks \ {t} : task'[u] = task[u]
<1>1. \A u \in Tasks \ {t} : task'[u] = task[u]
  BY Zenon DEF NextPass, CloneInv, TasksGood
<1>2. task'[t] = LET r == task[t] IN
        CASE r.rest = "SECONDARY" ->
                Pass("parsed", r.name, r.policy, "SECONDARY", r.who, TRUE, TRUE, "none")
          [] r.rest = "CROSS" -> CrossPass(r.name, r.policy, "none")
          [] r.rest = "NORMAL" -> NormalPass(r.name, r.policy, "none")
          [] OTHER -> Idle
  BY Zenon DEF NextPass, CloneInv, TasksGood
<1>3. \A n, p, who : Pass("parsed", n, p, "SECONDARY", who, TRUE, TRUE, "none").pc = "parsed"
  BY DEF Pass
<1>4. \/ task'[t] = Pass("parsed", task[t].name, task[t].policy, "SECONDARY", task[t].who, TRUE, TRUE, "none")
      \/ task'[t] = CrossPass(task[t].name, task[t].policy, "none")
      \/ task'[t] = NormalPass(task[t].name, task[t].policy, "none")
      \/ task'[t] = Idle
  BY Zenon, <1>2
<1>5. task'[t].pc # "started"
  <2>1. /\ CrossPass(task[t].name, task[t].policy, "none").pc = "parsed"
        /\ NormalPass(task[t].name, task[t].policy, "none").pc = "parsed"
    BY Zenon, OtaParsed
  <2>2. Pass("parsed", task[t].name, task[t].policy, "SECONDARY", task[t].who, TRUE, TRUE, "none").pc = "parsed"
    BY Zenon, <1>3
  <2>3. Idle.pc = "idle"
    BY Zenon, IdleGood
  <2>4. task'[t].pc = "parsed" \/ task'[t].pc = "idle"
    BY Zenon, <1>4, <2>1, <2>2, <2>3
  <2> QED
    BY Zenon, <2>4
<1> QED
  BY Zenon, <1>1, <1>5

\* What Finish does: CanStore holds.
LEMMA Finished ==
    ASSUME CloneInv, Agree, NEW t \in Tasks, Finish(t), NEW r, r = task[t]
    PROVE  /\ r.pc = "started" /\ r.pc # "idle" /\ r.name \in Names /\ r.policy \in Policies /\ r.clone \in BOOLEAN
           /\ lists'[r.name] = WithEntry(lists[r.name], IsCrossModeInstall(r), Entry(r.policy, r.clone))
           /\ \A m \in Names \ {r.name} : lists'[m] = lists[m]
           /\ row' = [row EXCEPT ![<<r.name, r.clone>>] = r.policy]
           /\ env' = [env EXCEPT !.fresh = @ \union {r.name}]
           /\ secondary' = secondary /\ boot' = boot /\ persisted' = persisted /\ NextPass(t)
<1>1. /\ task[t].pc = "started" /\ task[t].pc # "idle" /\ CanStore(task[t]) /\ NextPass(t)
      /\ secondary' = secondary /\ boot' = boot /\ persisted' = persisted
  BY Storable DEF Finish
<1>2. r.name \in Names /\ r.policy \in Policies /\ r.clone \in BOOLEAN
  BY Zenon, <1>1, StartedFacts
<1>3. /\ lists' = [lists EXCEPT ![r.name] = WithEntry(lists[r.name], IsCrossModeInstall(r), Entry(r.policy, r.clone))]
      /\ row' = [row EXCEPT ![<<r.name, r.clone>>] = r.policy]
      /\ env' = [env EXCEPT !.fresh = @ \union {r.name}]
  BY Zenon, <1>1 DEF Finish
<1>4. /\ lists'[r.name] = WithEntry(lists[r.name], IsCrossModeInstall(r), Entry(r.policy, r.clone))
      /\ \A m \in Names \ {r.name} : lists'[m] = lists[m]
  BY Zenon, <1>2, <1>3 DEF CloneInv, ListsGood
<1> QED
  BY Zenon, <1>1, <1>2, <1>3, <1>4

\* The policy sets a switch is called with, and the persisted one.
LEMMA ValidSets ==
    ASSUME CloneInv
    PROVE  (\A set \in PolicySets : IsValidPolicySet(set)) /\ (persisted # {} => IsValidPolicySet(persisted))
<1>1. persisted \in PolicySets \union {{}}
  BY Zenon DEF CloneInv, OtherTypes
<1> QED
  BY <1>1, DualModeAssumption

\* Only a restart makes up for a broken contract or a failed switch.
LEMMA EnvSticky ==
    ASSUME CloneInv, Next, ~Reboot
    PROVE  (env'.contract => env.contract) /\ (env.adrift => env'.adrift)
<1> USE DEF CloneInv, OtherTypes
<1>1. ASSUME NEW t \in Tasks, NEW n \in Names, NEW p \in Policies,
             Begin(t, n, p) \/ FirstBoot(t, n, p) \/ OtaNew(t, n, p) \/ OtaKnown(t, n, p)
      PROVE  (env'.contract => env.contract) /\ (env.adrift => env'.adrift)
  BY Zenon, <1>1 DEF Begin, FirstBoot, OtaNew, OtaKnown, InstallNoted
<1>2. ASSUME NEW t \in Tasks, Step(t)
      PROVE  env' = env \/ ((env'.contract => env.contract) /\ (env.adrift => env'.adrift))
  BY Zenon, <1>2 DEF Step, Name, Start, FailDirs, FailLate, FailSave, Finish
<1>3. ASSUME NEW n \in Names, Uninstall(n) PROVE env' = env
  BY Zenon, <1>3 DEF Uninstall
<1>4. ASSUME NEW set \in PolicySets, Switch(set) \/ SwitchFails(set)
      PROVE  (env'.contract => env.contract) /\ (env.adrift => env'.adrift)
  BY Zenon, <1>4 DEF Switch, SwitchFails
<1>5. CASE Flip
  BY Zenon, <1>5 DEF Flip
<1>6. CASE Publish
  BY Zenon, <1>6 DEF Publish
<1> QED
  BY Zenon, <1>1, <1>2, <1>3, <1>4, <1>5, <1>6 DEF Next

\* What a lawful state comes from is lawful, but for a boot.
LEMMA LawfulSticky ==
    ASSUME CloneInv, Next, ~Reboot, Lawful'
    PROVE  Lawful
  BY Zenon, OrderlySticky, EnvSticky DEF Lawful

\* An empty device is arranged for either mode.
LEMMA InitMode == Init => ModeInv
<1> SUFFICES ASSUME Init PROVE Tracked
  BY Zenon, InitRecords DEF ModeInv
<1>1. \A n \in Names : lists[n].vis = Absent /\ lists[n].tmp = Absent
  BY DEF Init, Pair
<1>2. Absent.policy = NoPolicy /\ ~Diff(NoPolicy)
  BY DEF Absent, Entry, Diff, IsDiffPackageCategory, NoPolicy
<1>3. Quiet
  BY DEF Init, Quiet
<1>4. \A t \in Tasks : SameVariant(task[t])
  BY Zenon, IdleGood DEF Init, SameVariant
<1> QED
  BY Zenon, <1>1, <1>2, <1>3, <1>4 DEF Tracked, OnSide

\* Every step keeps the invariant: what a step of one thread has to show, and
\* one step per action.
LEMMA NextMode ==
    ASSUME RecordsCovered, ModeInv, [Next]_vars
    PROVE  ModeInv'

\* A switch shows the other variant of every different-package application.
<1>MigrateSides.
    ASSUME NEW x \in GoodPairs, NEW set, IsValidPolicySet(set), NEW m \in BOOLEAN, NEW o, o = ~m,
           Paired(x), OnSide(x, m)
    PROVE  OnSide(Migrate(x, set), o) /\ Paired(Migrate(x, set))
  <2> USE <1>MigrateSides
  <2> DEFINE v == x.vis
             w == x.tmp
  <2>1. v \in GoodEntries /\ w \in GoodEntries /\ x = Pair(v, w)
    BY Zenon, PairFields
  <2>2. v.clone \in BOOLEAN /\ w.clone \in BOOLEAN /\ ~Diff(NoPolicy) /\ Absent.policy = NoPolicy
    BY Zenon, <2>1, GoodFields, RowFacts DEF Rows
  <2>3. \A p : Diff(p) => p \in set /\ p # UNSPECIFIED
    BY Zenon, DiffInSet DEF Diff
  <2>4. /\ Diff(v.policy) => v.clone = m
        /\ Diff(w.policy) => w.clone # m
        /\ v # Absent /\ w # Absent => Diff(v.policy) /\ Diff(w.policy)
    BY Zenon DEF OnSide, Paired
  <2> HIDE DEF v, w
  <2>5. CASE Hides(v, w, set)
    <3>1. Migrate(x, set) = Pair(Absent, v)
      <4>1. Migrate(Pair(v, w), set) = Pair(Absent, v)
        BY Zenon, <2>5, MigrateCases
      <4> QED
        BY Zenon, <2>1, <4>1
    <3>2. Migrate(x, set).vis = Absent /\ Migrate(x, set).tmp = v
      <4>1. Pair(Absent, v).vis = Absent /\ Pair(Absent, v).tmp = v
        BY Zenon, PairHas
      <4> QED
        BY Zenon, <3>1, <4>1
    <3> QED
      BY Zenon, <2>2, <2>4, <3>2 DEF OnSide, Paired
  <2>6. CASE Shows(w, set)
    <3>1. Migrate(x, set) = Pair(w, v)
      <4>1. Migrate(Pair(v, w), set) = Pair(w, v)
        BY Zenon, <2>6, MigrateCases
      <4> QED
        BY Zenon, <2>1, <4>1
    <3>2. Migrate(x, set).vis = w /\ Migrate(x, set).tmp = v
      <4>1. Pair(w, v).vis = w /\ Pair(w, v).tmp = v
        BY Zenon, PairHas
      <4> QED
        BY Zenon, <3>1, <4>1
    <3> QED
      BY Zenon, <2>2, <2>4, <3>2 DEF OnSide, Paired
  <2>7. CASE ~(Hides(v, w, set) \/ Shows(w, set))
    <3>1. Migrate(x, set) = Pair(v, w)
      <4>1. Migrate(Pair(v, w), set) = Pair(v, w)
        BY Zenon, <2>7, MigrateStays
      <4> QED
        BY Zenon, <2>1, <4>1
    <3>2. Migrate(x, set).vis = v /\ Migrate(x, set).tmp = w
      <4>1. Pair(v, w).vis = v /\ Pair(v, w).tmp = w
        BY Zenon, PairHas
      <4> QED
        BY Zenon, <3>1, <4>1
    <3>3. ~Diff(w.policy)
      BY Zenon, <2>2, <2>3, <2>7 DEF Shows
    <3>4. ~Diff(v.policy)
      BY Zenon, <2>2, <2>3, <2>4, <2>7, <3>3 DEF Hides, Diff
    <3> QED
      BY Zenon, <2>4, <3>2, <3>3, <3>4 DEF OnSide, Paired
  <2> QED
    BY Zenon, <2>5, <2>6, <2>7

\* No mode change is pending during an installation.
<1>Unpending.
    ASSUME CloneInv, Tracked, NEW t \in Tasks, task[t].pc # "idle"
    PROVE  env.pending = FALSE
  <2> USE <1>Unpending
  <2>1. env.pending \in BOOLEAN
    BY Zenon DEF CloneInv, OtherTypes
  <2> QED
    BY Zenon, <2>1, IdleGood DEF Tracked, Quiet, AllIdle

\* A step that leaves the lists and starts no installation.
<1>TrackedStep.
    ASSUME Tracked, NEW t \in Tasks, lists' = lists, secondary' = secondary,
           env.pending = FALSE, env'.pending = FALSE,
           \A u \in Tasks \ {t} : task'[u] = task[u], SameVariant(task[t])'
    PROVE  Tracked'
  <2> USE <1>TrackedStep
  <2>1. TrackedMode' = TrackedMode
    BY Zenon DEF TrackedMode
  <2>2. \A n \in Names : OnSide(lists[n], TrackedMode)'
    BY Zenon, <2>1 DEF Tracked, OnSide
  <2>3. Quiet'
    BY Zenon DEF Quiet
  <2>4. \A u \in Tasks : SameVariant(task[u])'
    BY Zenon DEF Tracked, SameVariant
  <2> QED
    BY Zenon, <2>2, <2>3, <2>4 DEF Tracked

\* A step on the lists of one name.
<1>TrackedName.
    ASSUME Tracked, NEW t \in Tasks, NEW n \in Names, secondary' = secondary,
           \A k \in Names \ {n} : lists'[k] = lists[k], OnSide(lists'[n], secondary),
           env.pending = FALSE, env'.pending = FALSE,
           \A u \in Tasks \ {t} : task'[u] = task[u], SameVariant(task[t])'
    PROVE  Tracked'
  <2> USE <1>TrackedName
  <2>1. TrackedMode' = secondary /\ TrackedMode = secondary
    BY Zenon DEF TrackedMode
  <2>2. \A k \in Names : OnSide(lists[k], TrackedMode)'
    BY Zenon, <2>1 DEF Tracked, OnSide
  <2>3. Quiet'
    BY Zenon DEF Quiet
  <2>4. \A u \in Tasks : SameVariant(task[u])'
    BY Zenon DEF Tracked, SameVariant
  <2> QED
    BY Zenon, <2>2, <2>3, <2>4 DEF Tracked

\* A thread that parses a package.
<1>TrackedParse.
    ASSUME CloneInv, Tracked, NEW t \in Tasks, NEW q, task' = [task EXCEPT ![t] = q], q.pc # "started",
           lists' = lists, secondary' = secondary, env.pending = FALSE, env'.pending = FALSE
    PROVE  Tracked'
  <2> USE <1>TrackedParse
  <2>1. task'[t] = q /\ \A u \in Tasks \ {t} : task'[u] = task[u]
    BY Zenon DEF CloneInv, TasksGood
  <2>2. SameVariant(task[t])'
    BY Zenon, <2>1 DEF SameVariant
  <2> QED
    BY Zenon, <2>1, <2>2, <1>TrackedStep

\* What the history notes of an installation that begins.
<1>Noted.
    ASSUME CloneInv, NEW t \in Tasks, NEW n \in Names, NEW p \in Policies,
           Begin(t, n, p) \/ FirstBoot(t, n, p) \/ OtaNew(t, n, p) \/ OtaKnown(t, n, p), Lawful'
    PROVE  env.pending = FALSE /\ env'.pending = FALSE /\ secondary' = secondary
  <2> USE <1>Noted
  <2>1. env'.pending = env.pending /\ (env'.contract => ~env.pending) /\ secondary' = secondary
    BY Zenon DEF Begin, FirstBoot, OtaNew, OtaKnown, InstallNoted, Scan, CloneInv, OtherTypes
  <2>2. env.pending \in BOOLEAN
    BY Zenon DEF CloneInv, OtherTypes
  <2> QED
    BY Zenon, <2>1, <2>2 DEF Lawful

\* Begin, FirstBoot and OtaNew: a package is parsed.
<1>ParseTracked.
    ASSUME CloneInv, Tracked, NEW t \in Tasks, NEW n \in Names, NEW p \in Policies,
           Begin(t, n, p) \/ FirstBoot(t, n, p) \/ OtaNew(t, n, p), Lawful'
    PROVE  Tracked'
  <2> USE <1>ParseTracked
  <2>1. env.pending = FALSE /\ env'.pending = FALSE /\ secondary' = secondary
    BY Zenon, <1>Noted
  <2>2. lists' = lists
    BY Zenon DEF Begin, FirstBoot, OtaNew
  <2>3. PICK q : task' = [task EXCEPT ![t] = q] /\ q.pc = "parsed"
    <3>1. \A name, policy, role, who, resolved, clone, rest :
              Pass("parsed", name, policy, role, who, resolved, clone, rest).pc = "parsed"
      BY DEF Pass
    <3>2. CASE Begin(t, n, p)
      <4> DEFINE q == Pass("parsed", n, p, "NONE", "user", FALSE,
                           secondary /\ IsDiffPackageCategory(p), "none")
      <4>1. task' = [task EXCEPT ![t] = q]
        BY Zenon, <3>2 DEF Begin
      <4>2. q.pc = "parsed"
        BY Zenon, <3>1
      <4> HIDE DEF q
      <4> QED
        BY Zenon, <4>1, <4>2
    <3>3. CASE FirstBoot(t, n, p)
      BY Zenon, <3>1, <3>3 DEF FirstBoot, FirstPass
    <3>4. CASE OtaNew(t, n, p)
      BY Zenon, <3>4, OtaParsed DEF OtaNew
    <3> QED
      BY Zenon, <3>2, <3>3, <3>4
  <2> QED
    BY Zenon, <2>1, <2>2, <2>3, <1>TrackedParse

\* The entry of an application that takes policy p.
<1>TakesPolicy.
    ASSUME NEW v, NEW w, NEW p \in Policies, v # Absent, NEW x, x = Pair(v, w)
    PROVE  /\ WithPolicy(x, p).vis = Entry(p, v.clone)
           /\ w = Absent => WithPolicy(x, p).tmp = Absent
           /\ w # Absent => WithPolicy(x, p).tmp = Entry(p, w.clone) /\ WithPolicy(x, p).tmp # Absent
  <2> USE <1>TakesPolicy
  <2>1. x.vis = v /\ x.tmp = w
    BY Zenon, PairHas
  <2>2. WithPolicy(x, p) = Pair(Entry(p, v.clone), IF w = Absent THEN Absent ELSE Entry(p, w.clone))
    BY Zenon, <2>1 DEF WithPolicy
  <2>3. /\ WithPolicy(x, p).vis = Entry(p, v.clone)
        /\ WithPolicy(x, p).tmp = IF w = Absent THEN Absent ELSE Entry(p, w.clone)
    BY <2>2 DEF Pair
  <2>4. Entry(p, w.clone) # Absent
    BY DualModeAssumption DEF Entry, Absent, NoPolicy
  <2> QED
    BY Zenon, <2>3, <2>4

\* UpdateDualPolicy keeps the variants on their sides unless the records mislead it.
<1>UpdateSides.
    ASSUME CloneInv, NEW n \in Names, NEW p \in Policies, Diff(p), UpdateDualPolicy(n, p),
           lists[n].vis # Absent, ~Misleads(n, p), Paired(lists[n]), OnSide(lists[n], secondary)
    PROVE  OnSide(lists'[n], secondary)
  <2> USE <1>UpdateSides
  <2> DEFINE v == lists[n].vis
             w == lists[n].tmp
             x == WithPolicy(lists[n], p)
  <2>1. lists'[n] = IF x.tmp = Absent /\ known[<<n, TRUE>>] = "none" /\ secondary THEN Pair(Absent, x.vis) ELSE x
    BY Zenon DEF UpdateDualPolicy, CloneInv, ListsGood
  <2>2. v \in GoodEntries /\ w \in GoodEntries /\ lists[n] = Pair(v, w) /\ secondary \in BOOLEAN
    BY Zenon, PairFields DEF CloneInv, ListsGood, OtherTypes
  <2>3. /\ v.clone \in BOOLEAN /\ w.clone \in BOOLEAN /\ (~Diff(v.policy) => v.clone = FALSE)
        /\ ~Diff(NoPolicy) /\ Absent.policy = NoPolicy
    BY Zenon, <2>2, GoodFields, RowFacts DEF Rows, Diff
  <2>4. /\ Diff(v.policy) => v.clone = secondary
        /\ Diff(w.policy) => w.clone # secondary
        /\ w # Absent => Diff(v.policy) /\ Diff(w.policy)
    BY Zenon DEF OnSide, Paired
  <2>5. /\ x.vis = Entry(p, v.clone)
        /\ w = Absent => x.tmp = Absent
        /\ w # Absent => x.tmp = Entry(p, w.clone) /\ x.tmp # Absent
    BY <2>2, <1>TakesPolicy
  <2>6. /\ Entry(p, v.clone).policy = p /\ Entry(p, v.clone).clone = v.clone
        /\ Entry(p, w.clone).policy = p /\ Entry(p, w.clone).clone = w.clone
    BY DEF Entry
  <2>7. secondary /\ w = Absent => IF known[<<n, TRUE>>] = "none" THEN ~v.clone ELSE Diff(v.policy)
    BY Zenon DEF Misleads, Diff
  <2> HIDE DEF v, w, x
  <2>8. CASE w # Absent
    <3>1. lists'[n] = x
      BY Zenon, <2>1, <2>5, <2>8
    <3> QED
      BY Zenon, <2>4, <2>5, <2>6, <2>8, <3>1 DEF OnSide
  <2>9. CASE w = Absent /\ secondary /\ known[<<n, TRUE>>] = "none"
    <3>1. lists'[n] = Pair(Absent, x.vis)
      BY Zenon, <2>1, <2>5, <2>9
    <3>2. lists'[n].vis = Absent /\ lists'[n].tmp = x.vis
      BY <3>1 DEF Pair
    <3>3. v.clone # secondary
      BY Zenon, <2>3, <2>7, <2>9
    <3> QED
      BY Zenon, <2>3, <2>5, <2>6, <3>2, <3>3 DEF OnSide
  <2>10. CASE w = Absent /\ (~secondary \/ known[<<n, TRUE>>] # "none")
    <3>1. lists'[n] = x /\ x.tmp = Absent
      BY Zenon, <2>1, <2>5, <2>10
    <3>2. v.clone = secondary
      BY Zenon, <2>2, <2>3, <2>4, <2>7, <2>10
    <3> QED
      BY Zenon, <2>3, <2>5, <2>6, <3>1, <3>2 DEF OnSide
  <2> QED
    BY Zenon, <2>8, <2>9, <2>10

\* OtaKnown
<1>OtaKnownTracked.
    ASSUME CloneInv, Agree, Tracked, NEW t \in Tasks, NEW n \in Names, NEW p \in Policies,
           OtaKnown(t, n, p), Lawful'
    PROVE  Tracked'
  <2> USE <1>OtaKnownTracked
  <2>1. env.pending = FALSE /\ env'.pending = FALSE /\ secondary' = secondary
    BY Zenon, <1>Noted
  <2>2. PICK q : task' = [task EXCEPT ![t] = q] /\ q.pc # "started"
    <3>1. PICK q : /\ task' = [task EXCEPT ![t] = q]
                   /\ \/ q = Idle
                      \/ q = NormalPass(n, p, "none")
                      \/ Diff(p) /\ (q = CrossPass(n, p, "NORMAL") \/ q = CrossPass(n, p, "none"))
                      \/ /\ ~Diff(p) /\ q = CrossPass(n, p, "none")
                         /\ ShouldBeHidden(p, secondary) /\ lists[n].tmp # Absent
      BY Zenon, OtaKnownTask
    <3>2. q.pc # "started"
      BY <3>1, OtaParsed, IdleGood
    <3> QED
      BY Zenon, <3>1, <3>2
  <2>3. CASE ~Diff(p)
    <3>1. lists' = lists
      BY Zenon, <2>3 DEF OtaKnown, Diff
    <3> QED
      BY Zenon, <2>1, <2>2, <3>1, <1>TrackedParse
  <2>4. CASE Diff(p)
    <3>1. UpdateDualPolicy(n, p) /\ ~Misleads(n, p)
      BY Zenon, <2>4 DEF OtaKnown, Diff, Lawful, CloneInv, OtherTypes
    <3>2. OnSide(lists[n], secondary)
      BY Zenon, <2>1 DEF Tracked, TrackedMode
    <3>3. OnSide(lists'[n], secondary)
      <4>1. CASE lists[n].vis = Absent
        BY Zenon, <3>1, <3>2, <4>1, UpdateHidden
      <4>2. CASE lists[n].vis # Absent
        <5>1. Paired(lists[n])
          BY Zenon, AgreePaired
        <5> QED
          BY Zenon, <2>4, <3>1, <3>2, <4>2, <5>1, <1>UpdateSides
      <4> QED
        BY Zenon, <4>1, <4>2
    <3>4. \A k \in Names \ {n} : lists'[k] = lists[k]
      BY Zenon, <3>1 DEF UpdateDualPolicy, CloneInv, ListsGood
    <3>5. task'[t] = q /\ \A u \in Tasks \ {t} : task'[u] = task[u]
      BY Zenon, <2>2 DEF CloneInv, TasksGood
    <3>6. SameVariant(task[t])'
      BY Zenon, <2>2, <3>5 DEF SameVariant
    <3> QED
      BY Zenon, <2>1, <3>3, <3>4, <3>5, <3>6, <1>TrackedName
  <2> QED
    BY Zenon, <2>3, <2>4

\* A pass ends with the lists as they were.
<1>UndoneTracked.
    ASSUME CloneInv, Agree, Tracked, NEW t \in Tasks, NEW n \in Names, NEW k \in BOOLEAN, Undone(t, n, k),
           env' = env
    PROVE  Tracked'
  <2> USE <1>UndoneTracked
  <2>1. /\ task[t].pc # "idle" /\ NextPass(t) /\ lists' = lists /\ row' = row
        /\ secondary' = secondary /\ boot' = boot /\ scanned' = scanned
        /\ n = task[t].name
        /\ task[t].who # "user" /\ Diff(task[t].policy) => \A c \in BOOLEAN : Has(n, c) => Diff(row[<<n, c>>])
    BY Zenon DEF Undone
  <2>2. task'[t].pc \in {"idle", "parsed"} /\ \A u \in Tasks \ {t} : task'[u] = task[u]
    BY Zenon, <2>1, NextPassInv DEF Agree, TaskInv, Has
  <2>3. SameVariant(task[t])'
    BY Zenon, <2>2 DEF SameVariant
  <2>4. env.pending = FALSE /\ env'.pending = FALSE
    BY Zenon, <2>1, <1>Unpending
  <2> QED
    BY Zenon, <2>1, <2>2, <2>3, <2>4, <1>TrackedStep

\* A failure after the start.
<1>FailTracked.
    ASSUME CloneInv, Agree, Tracked, RecordsCovered, NEW t \in Tasks,
           FailDirs(t) \/ FailLate(t) \/ FailSave(t)
    PROVE  Tracked'
  <2> USE <1>FailTracked
  <2>1. PICK n \in Names, k \in BOOLEAN : Undone(t, n, k)
    BY Zenon, FailDirsUndone, FailLateUndone, FailSaveUndone
  <2>2. env' = env
    BY Zenon DEF FailDirs, FailLate, FailSave
  <2> QED
    BY Zenon, <2>1, <2>2, <1>UndoneTracked

\* Name
<1>NameTracked.
    ASSUME CloneInv, Tracked, NEW t \in Tasks, Name(t)
    PROVE  Tracked'
  <2> USE <1>NameTracked
  <2> DEFINE r == task[t]
             q == [[r EXCEPT !.pc = "named"] EXCEPT !.key = ShouldUseDualModeCloneName(r)]
  <2>1. /\ task' = [task EXCEPT ![t] = q] /\ r.pc # "idle"
        /\ lists' = lists /\ secondary' = secondary /\ env' = env
    BY DEF Name
  <2>2. r \in Passes
    BY Zenon, <2>1, TaskFacts, PassFields
  <2>3. q.pc # "started"
    BY Zenon, <2>2 DEF Passes
  <2> HIDE DEF q
  <2>4. env.pending = FALSE /\ env'.pending = FALSE
    BY Zenon, <2>1, <1>Unpending
  <2> QED
    BY Zenon, <2>1, <2>3, <2>4, <1>TrackedParse

\* The category checks let through packages of the category of the entry found.
<1>SameCategory.
    ASSUME CloneInv, Agree, NEW t \in Tasks, task[t].pc = "named", ~Locked(task[t].name),
           NEW old, old = Lookup(task[t]), old # Absent, ~CategoryConflict(task[t], old)
    PROVE  Diff(old.policy) <=> Diff(task[t].policy)
  <2> USE <1>SameCategory
  <2> DEFINE r == task[t]
  <2>1. /\ r.name \in Names /\ Exact(r.name)
        /\ r.who # "user" /\ Diff(r.policy) => \A c \in BOOLEAN : Has(r.name, c) => Diff(row[<<r.name, c>>])
    BY Zenon, NamedFacts
  <2>2. old \in {lists[r.name].vis, lists[r.name].tmp}
    BY Zenon DEF Lookup
  <2>3. old.clone \in BOOLEAN /\ Has(r.name, old.clone) /\ row[<<r.name, old.clone>>] = old.policy
    BY Zenon, <2>1, <2>2, EntryRow
  <2>4. CASE r.who = "ota"
    <3>1. Diff(old.policy) => Diff(r.policy)
      BY Zenon, <2>4 DEF CategoryConflict, Diff
    <3>2. Diff(r.policy) => Diff(old.policy)
      BY Zenon, <2>1, <2>3, <2>4
    <3> QED
      BY Zenon, <3>1, <3>2
  <2>5. CASE r.who # "ota"
    BY <2>5 DEF CategoryConflict, Diff
  <2> QED
    BY Zenon, <2>4, <2>5

\* InitTempBundleFromCache finds the variant of the effective name.
<1>FoundVariant.
    ASSUME CloneInv, Agree, Tracked, NEW t \in Tasks, task[t].pc = "named", ~Locked(task[t].name),
           NEW old, old = Lookup(task[t]), old # Absent, ~CategoryConflict(task[t], old)
    PROVE  old.clone = task[t].key
  <2> USE <1>FoundVariant
  <2> DEFINE r == task[t]
  <2>1. /\ r \in Passes /\ TaskInv(r) /\ r.name \in Names /\ r.key \in BOOLEAN /\ secondary \in BOOLEAN
        /\ Exact(r.name)
    BY Zenon, NamedFacts DEF CloneInv, OtherTypes
  <2>2. /\ r.key = ShouldUseDualModeCloneName(r)
        /\ r.role # "NONE" => Diff(r.policy)
    BY Zenon, <2>1 DEF TaskInv, NamedInv
  <2>3. r.role \in {"NONE", "PRIMARY", "SECONDARY"}
    BY Zenon, <2>1 DEF Passes
  <2>4. OnSide(lists[r.name], secondary)
    <3>1. env.pending = FALSE
      BY Zenon, <1>Unpending
    <3> QED
      BY Zenon, <2>1, <3>1 DEF Tracked, TrackedMode
  <2>5. old \in GoodEntries
    BY Zenon, <2>1, PairFields DEF Lookup, CloneInv, ListsGood
  <2>6. old.clone \in BOOLEAN /\ (old.clone => Diff(old.policy))
    BY Zenon, <2>5, GoodFields DEF Diff
  <2>7. Diff(old.policy) <=> Diff(r.policy)
    BY Zenon, <1>SameCategory
  <2>8. CASE Diff(r.policy) /\ ~IsCrossModeInstall(r)
    <3>1. old.clone = secondary
      BY Zenon, <2>4, <2>7, <2>8 DEF Lookup, OnSide
    <3>2. r.key = secondary
      <4>1. DualPass(r)
        BY Zenon, <2>3, <2>8 DEF DualPass
      <4> QED
        BY Zenon, <2>1, <2>2, <2>8, <4>1, ModeFlag
    <3> QED
      BY Zenon, <3>1, <3>2
  <2>9. CASE Diff(r.policy) /\ IsCrossModeInstall(r)
    <3>1. old.clone # secondary
      BY Zenon, <2>4, <2>7, <2>9 DEF Lookup, OnSide
    <3>2. r.key # secondary
      <4>1. DualPass(r)
        BY Zenon, <2>3, <2>9 DEF DualPass
      <4>2. ShouldUseDualModeCloneName(r) # secondary
        BY Zenon, <2>1, <2>9, <4>1, OtherFlag
      <4> QED
        BY Zenon, <2>2, <4>2
    <3> QED
      BY Zenon, <2>1, <2>6, <3>1, <3>2
  <2>10. CASE ~Diff(r.policy)
    <3>1. old.clone = FALSE
      BY Zenon, <2>6, <2>7, <2>10
    <3>2. r.key = FALSE
      BY Zenon, <2>1, <2>2, <2>10 DEF ShouldUseDualModeCloneName, Diff
    <3> QED
      BY Zenon, <3>1, <3>2
  <2> QED
    BY Zenon, <2>8, <2>9, <2>10

\* Start
<1>StartTracked.
    ASSUME CloneInv, Agree, Tracked, NEW t \in Tasks, Start(t)
    PROVE  Tracked'
  <2> USE <1>StartTracked
  <2> DEFINE r == task[t]
  <2>1. /\ r.pc = "named" /\ r.pc # "idle" /\ ~Locked(r.name)
        /\ secondary' = secondary /\ boot' = boot /\ scanned' = scanned /\ env' = env
    BY Zenon DEF Start
  <2>2. PICK n \in Names, k \in BOOLEAN : n = r.name /\ k = r.key
    BY <2>1, NamedFacts
  <2>3. PICK old : old = Lookup(r)
    OBVIOUS
  <2>4. CASE ~CategoryConflict(r, old) /\ lists' = lists /\ task' = [task EXCEPT ![t] = Started(r, old)]
    <3>1. r \in Passes /\ r.clone = r.key
      BY Zenon, <2>1, NamedFacts
    <3>2. PICK q : q = Started(r, old)
      OBVIOUS
    <3>3. q.clone = (IF old = Absent THEN r.clone ELSE old.clone) /\ q.key = r.key
      BY Zenon, <3>1, <3>2 DEF Started, Passes
    <3>4. old # Absent => old.clone = r.key
      BY Zenon, <2>1, <2>3, <2>4, <1>FoundVariant
    <3>5. task'[t] = q /\ \A u \in Tasks \ {t} : task'[u] = task[u]
      BY Zenon, <2>4, <3>2 DEF CloneInv, TasksGood
    <3>6. SameVariant(task[t])'
      BY Zenon, <3>1, <3>3, <3>4, <3>5 DEF SameVariant
    <3>7. env.pending = FALSE /\ env'.pending = FALSE
      BY Zenon, <2>1, <1>Unpending
    <3> QED
      BY Zenon, <2>1, <2>4, <3>5, <3>6, <3>7, <1>TrackedStep
  <2>5. CASE /\ RollBackNew(t, lists[n], state[<<n, k>>]) \/ RollBackExisting(t)
             /\ NextPass(t)
    <3>1. Undone(t, n, k)
      BY <2>1, <2>2, <2>5, StartRefused
    <3> QED
      BY Zenon, <2>1, <3>1, <1>UndoneTracked
  <2> QED
    BY Zenon, <2>2, <2>3, <2>4, <2>5 DEF Start

\* Finish: the entry comes to the side of its variant.
<1>FinishTracked.
    ASSUME CloneInv, Agree, Tracked, NEW t \in Tasks, Finish(t)
    PROVE  Tracked'
  <2> USE <1>FinishTracked
  <2>1. PICK r : r = task[t]
    OBVIOUS
  <2>2. /\ r.pc = "started" /\ r.pc # "idle" /\ r.name \in Names /\ r.policy \in Policies /\ r.clone \in BOOLEAN
        /\ lists'[r.name] = WithEntry(lists[r.name], IsCrossModeInstall(r), Entry(r.policy, r.clone))
        /\ \A m \in Names \ {r.name} : lists'[m] = lists[m]
        /\ env' = [env EXCEPT !.fresh = @ \union {r.name}]
        /\ secondary' = secondary /\ NextPass(t)
    BY Zenon, <2>1, Finished
  <2>3. env.pending = FALSE /\ env'.pending = FALSE
    <3>1. env.pending = FALSE
      BY Zenon, <2>1, <2>2, <1>Unpending
    <3> QED
      BY Zenon, <2>2, <3>1 DEF CloneInv, OtherTypes
  <2>4. r.clone = ShouldUseDualModeCloneName(r)
    BY Zenon, <2>1, <2>2 DEF Tracked, SameVariant, Agree, TaskInv, NamedInv
  <2>5. r.role \in {"NONE", "PRIMARY", "SECONDARY"} /\ secondary \in BOOLEAN
    <3>1. r \in Passes
      BY Zenon, <2>1, <2>2, TaskFacts, PassFields
    <3> QED
      BY Zenon, <3>1 DEF Passes, CloneInv, OtherTypes
  <2>6. /\ Diff(lists[r.name].vis.policy) => lists[r.name].vis.clone = secondary
        /\ Diff(lists[r.name].tmp.policy) => lists[r.name].tmp.clone # secondary
    BY Zenon, <2>2, <2>3 DEF Tracked, TrackedMode, OnSide
  <2>7. Entry(r.policy, r.clone).policy = r.policy /\ Entry(r.policy, r.clone).clone = r.clone
    BY DEF Entry
  <2>8. ASSUME IsCrossModeInstall(r) PROVE OnSide(lists'[r.name], secondary)
    <3>1. lists'[r.name].vis = lists[r.name].vis /\ lists'[r.name].tmp = Entry(r.policy, r.clone)
      BY <2>2, <2>8 DEF WithEntry, Pair
    <3>2. Diff(r.policy) => r.clone # secondary
      <4>1. Diff(r.policy) => DualPass(r)
        BY Zenon, <2>5 DEF DualPass
      <4>2. Diff(r.policy) => ShouldUseDualModeCloneName(r) # secondary
        BY Zenon, <2>5, <2>8, <4>1, OtherFlag
      <4> QED
        BY Zenon, <2>4, <4>2
    <3> QED
      BY Zenon, <2>6, <2>7, <3>1, <3>2 DEF OnSide
  <2>9. ASSUME ~IsCrossModeInstall(r) PROVE OnSide(lists'[r.name], secondary)
    <3>1. lists'[r.name].vis = Entry(r.policy, r.clone) /\ lists'[r.name].tmp = lists[r.name].tmp
      BY <2>2, <2>9 DEF WithEntry, Pair
    <3>2. Diff(r.policy) => r.clone = secondary
      <4>1. Diff(r.policy) => DualPass(r)
        BY Zenon, <2>5 DEF DualPass
      <4>2. Diff(r.policy) => ShouldUseDualModeCloneName(r) = secondary
        BY Zenon, <2>5, <2>9, <4>1, ModeFlag
      <4> QED
        BY Zenon, <2>4, <4>2
    <3> QED
      BY Zenon, <2>6, <2>7, <3>1, <3>2 DEF OnSide
  <2>10. OnSide(lists'[r.name], secondary)
    BY Zenon, <2>8, <2>9
  <2>11. SameVariant(task[t])' /\ \A u \in Tasks \ {t} : task'[u] = task[u]
    BY Zenon, <2>2, NextParsed DEF SameVariant
  <2> QED
    BY Zenon, <2>2, <2>3, <2>10, <2>11, <1>TrackedName

\* Uninstall
<1>UninstallTracked.
    ASSUME CloneInv, Tracked, NEW n \in Names, Uninstall(n)
    PROVE  Tracked'
  <2> USE <1>UninstallTracked
  <2>1. /\ lists' = [lists EXCEPT ![n] = Pair(Absent, lists[n].tmp)]
        /\ secondary' = secondary /\ boot' = boot /\ task' = task /\ env' = env
    BY Zenon DEF Uninstall, DeleteBundleInfo
  <2>2. TrackedMode' = TrackedMode
    BY Zenon, <2>1 DEF TrackedMode
  <2>3. Quiet' /\ \A t \in Tasks : SameVariant(task[t])'
    BY Zenon, <2>1 DEF Tracked, Quiet, AllIdle, SameVariant
  <2>4. ASSUME NEW m \in Names PROVE OnSide(lists'[m], TrackedMode)
    <3>1. lists'[m] = IF m = n THEN Pair(Absent, lists[m].tmp) ELSE lists[m]
      BY Zenon, <2>1 DEF CloneInv, ListsGood
    <3>2. OnSide(lists[m], TrackedMode)
      BY Zenon DEF Tracked
    <3>3. Absent.policy = NoPolicy /\ ~Diff(NoPolicy)
      BY DEF Absent, Entry, Diff, IsDiffPackageCategory, NoPolicy
    <3>4. CASE m = n
      <4>1. lists'[m].vis = Absent /\ lists'[m].tmp = lists[m].tmp
        BY <3>1, <3>4 DEF Pair
      <4> QED
        BY Zenon, <3>2, <3>3, <4>1 DEF OnSide
    <3>5. CASE m # n
      BY Zenon, <3>1, <3>2, <3>5
    <3> QED
      BY Zenon, <3>4, <3>5
  <2> QED
    BY Zenon, <2>2, <2>3, <2>4 DEF Tracked, OnSide

\* Steps of a device at rest that leave the lists arranged for the tracked mode.
<1>TrackedMove.
    ASSUME Tracked, \A n \in Names : OnSide(lists'[n], TrackedMode'), Quiet',
           task' = task \/ \A t \in Tasks : task'[t] = Idle
    PROVE  Tracked'
  <2> USE <1>TrackedMove
  <2>1. \A t \in Tasks : SameVariant(task[t])'
    BY Zenon, IdleGood DEF Tracked, SameVariant
  <2> QED
    BY Zenon, <2>1 DEF Tracked, OnSide

\* Switch: the caller calls it once after a mode change.
<1>SwitchTracked.
    ASSUME CloneInv, Agree, Tracked, NEW set \in PolicySets, Switch(set), Lawful'
    PROVE  Tracked'
  <2> USE <1>SwitchTracked
  <2>1. /\ lists' = MigrateAll(set) /\ task' = task /\ secondary' = secondary /\ IsValidPolicySet(set)
        /\ env' = [env EXCEPT !.pending = FALSE, !.fresh = {}, !.contract = @ /\ env.pending]
    BY Zenon, ValidSets DEF Switch
  <2>2. env.pending /\ env'.pending = FALSE /\ secondary \in BOOLEAN
    BY Zenon, <2>1 DEF Lawful, CloneInv, OtherTypes
  <2>3. TrackedMode = ~secondary /\ TrackedMode' = secondary /\ TrackedMode \in BOOLEAN
    BY Zenon, <2>1, <2>2 DEF TrackedMode
  <2>4. secondary = ~TrackedMode
    BY Zenon, <2>2, <2>3
  <2>5. ASSUME NEW n \in Names PROVE OnSide(lists'[n], TrackedMode')
    <3>1. lists'[n] = Migrate(lists[n], set) /\ lists[n] \in GoodPairs
      BY Zenon, <2>1 DEF MigrateAll, CloneInv, ListsGood
    <3>2. Paired(lists[n]) /\ OnSide(lists[n], TrackedMode)
      BY Zenon, AgreePaired DEF Tracked
    <3>3. OnSide(Migrate(lists[n], set), secondary)
      BY Zenon, <2>1, <2>3, <2>4, <3>1, <3>2, <1>MigrateSides
    <3> QED
      BY Zenon, <2>3, <3>1, <3>3
  <2>6. Quiet'
    BY Zenon, <2>2 DEF Quiet
  <2> QED
    BY Zenon, <2>1, <2>5, <2>6, <1>TrackedMove

\* SwitchFails: with an old set the entries are moved there and back.
<1>SwitchFailsTracked.
    ASSUME CloneInv, Agree, Tracked, NEW set \in PolicySets, SwitchFails(set), Lawful'
    PROVE  Tracked'
  <2> USE <1>SwitchFailsTracked
  <2>1. /\ task' = task /\ secondary' = secondary /\ boot' = boot
        /\ env' = [env EXCEPT !.adrift = @ \/ persisted = {}]
    BY Zenon DEF SwitchFails
  <2>2. persisted # {} /\ env'.pending = env.pending /\ secondary \in BOOLEAN
    BY Zenon, <2>1 DEF Lawful, CloneInv, OtherTypes
  <2>3. IsValidPolicySet(set) /\ IsValidPolicySet(persisted)
    BY Zenon, <2>2, ValidSets
  <2>4. TrackedMode' = TrackedMode /\ TrackedMode \in BOOLEAN
    BY Zenon, <2>1, <2>2 DEF TrackedMode
  <2>5. PICK m \in BOOLEAN, o \in BOOLEAN : m = TrackedMode /\ o = ~m /\ m = ~o
    BY Zenon, <2>4
  <2>6. ASSUME NEW n \in Names PROVE OnSide(lists'[n], TrackedMode')
    <3>1. PICK y : y = Migrate(lists[n], set)
      OBVIOUS
    <3>2. lists'[n] = Migrate(y, persisted) /\ lists[n] \in GoodPairs
      BY Zenon, <2>2, <3>1 DEF SwitchFails, RollBackSwitch, CloneInv, ListsGood
    <3>3. Paired(lists[n]) /\ OnSide(lists[n], m)
      BY Zenon, <2>5, AgreePaired DEF Tracked
    <3>4. OnSide(y, o) /\ Paired(y) /\ y \in GoodPairs
      BY Zenon, <2>3, <2>5, <3>1, <3>2, <3>3, <1>MigrateSides, MigrateGood
    <3>5. OnSide(Migrate(y, persisted), m)
      BY Zenon, <2>3, <2>5, <3>4, <1>MigrateSides
    <3> QED
      BY Zenon, <2>4, <2>5, <3>2, <3>5
  <2>7. Quiet'
    BY Zenon, <2>1, <2>2 DEF Tracked, Quiet, AllIdle
  <2> QED
    BY Zenon, <2>1, <2>6, <2>7, <1>TrackedMove

\* Flip: the lists stay arranged for the mode before.
<1>FlipTracked.
    ASSUME CloneInv, Tracked, Flip, Lawful'
    PROVE  Tracked'
  <2> USE <1>FlipTracked
  <2>1. /\ task' = task /\ lists' = lists /\ boot' = boot /\ secondary' = ~secondary
        /\ env' = [env EXCEPT !.pending = TRUE, !.contract = @ /\ ~env.pending,
                              !.torn = @ \/ ~AllIdle \/ boot # "up"]
    BY Zenon DEF Flip
  <2>2. ~env.pending /\ env'.pending /\ AllIdle /\ boot = "up" /\ secondary \in BOOLEAN
    BY Zenon, <2>1 DEF Lawful, Orderly, CloneInv, OtherTypes
  <2>3. TrackedMode' = TrackedMode
    BY Zenon, <2>1, <2>2 DEF TrackedMode
  <2>4. Quiet'
    BY Zenon, <2>1, <2>2 DEF Quiet, AllIdle
  <2> QED
    BY Zenon, <2>1, <2>3, <2>4, <1>TrackedMove DEF Tracked

\* Publish
<1>PublishTracked.
    ASSUME Tracked, Publish
    PROVE  Tracked'
  <2> USE <1>PublishTracked
  <2>1. task' = task /\ lists' = lists /\ boot' = "up" /\ secondary' = secondary /\ env' = env /\ AllIdle
    BY Zenon DEF Publish
  <2>2. TrackedMode' = TrackedMode /\ Quiet'
    BY Zenon, <2>1 DEF TrackedMode, Quiet, AllIdle
  <2> QED
    BY Zenon, <2>1, <2>2, <1>TrackedMove DEF Tracked

\* Reboot: the boot reads the mode.
<1>RebootTracked.
    ASSUME CloneInv, Agree, Reboot
    PROVE  Tracked'
  <2> USE <1>RebootTracked
  <2>1. /\ task' = [t \in Tasks |-> Idle] /\ secondary' = secondary /\ secondary \in BOOLEAN
        /\ env' = [env EXCEPT !.pending = FALSE, !.contract = TRUE, !.adrift = FALSE, !.fresh = {}]
    BY Zenon DEF Reboot, CloneInv, OtherTypes
  <2>2. env'.pending = FALSE
    BY Zenon, <2>1 DEF CloneInv, OtherTypes
  <2>3. TrackedMode' = secondary /\ Quiet'
    BY Zenon, <2>1, <2>2 DEF TrackedMode, Quiet
  <2>4. ASSUME NEW n \in Names PROVE OnSide(lists[n], TrackedMode)'
    <3>1. PICK a \in Rows, b \in Rows : a = row[<<n, FALSE>>] /\ b = row[<<n, TRUE>>] /\ Fit(a, b)
      BY Zenon DEF Agree, NameInv, Exact, CloneInv, RowsGood, Keys
    <3>2. lists'[n] = Boot(a, b, persisted, secondary)
      BY Zenon, <3>1 DEF Reboot
    <3>3. OnSide(lists'[n], secondary)
      BY Zenon, <2>1, <3>1, <3>2, BootLays
    <3> QED
      BY Zenon, <2>3, <3>3 DEF OnSide
  <2>5. \A t \in Tasks : SameVariant(task[t])'
    BY Zenon, <2>1, IdleGood DEF SameVariant
  <2> QED
    BY Zenon, <2>3, <2>4, <2>5 DEF Tracked

<1>1. RecordsInv /\ RecordsInv' /\ CloneInv
  BY Zenon, NextRecords DEF ModeInv, RecordsInv
<1> SUFFICES ASSUME Lawful' PROVE Tracked'
  BY Zenon, <1>1 DEF ModeInv
<1>2. CASE UNCHANGED vars
  BY Zenon, <1>2 DEF vars, ModeInv, Lawful, Orderly, Tracked, OnSide, TrackedMode, Quiet,
     AllIdle, SameVariant
<1>3. CASE Reboot
  <2>1. Agree
    BY Zenon, <1>1, <1>3, OrderlySticky DEF Lawful, RecordsInv, Next
  <2> QED
    BY Zenon, <1>1, <1>3, <2>1, <1>RebootTracked
<1>4. CASE Next /\ ~Reboot
  <2>1. Lawful
    BY Zenon, <1>1, <1>4, LawfulSticky
  <2>2. Agree /\ Tracked
    BY Zenon, <2>1 DEF ModeInv, RecordsInv, Lawful
  <2>3. ASSUME NEW t \in Tasks, NEW n \in Names, NEW p \in Policies,
               Begin(t, n, p) \/ FirstBoot(t, n, p) \/ OtaNew(t, n, p) \/ OtaKnown(t, n, p)
        PROVE  Tracked'
    BY Zenon, <1>1, <2>2, <2>3, <1>ParseTracked, <1>OtaKnownTracked
  <2>4. ASSUME NEW t \in Tasks, Step(t)
        PROVE  Tracked'
    BY Zenon, <1>1, <2>2, <2>4, <1>NameTracked, <1>StartTracked, <1>FailTracked,
       <1>FinishTracked DEF Step
  <2>5. ASSUME NEW n \in Names, Uninstall(n)
        PROVE  Tracked'
    BY Zenon, <1>1, <2>2, <2>5, <1>UninstallTracked
  <2>6. ASSUME NEW set \in PolicySets, Switch(set) \/ SwitchFails(set)
        PROVE  Tracked'
    BY Zenon, <1>1, <2>2, <2>6, <1>SwitchTracked, <1>SwitchFailsTracked
  <2>7. CASE Flip
    BY Zenon, <1>1, <2>2, <2>7, <1>FlipTracked
  <2>8. CASE Publish
    BY Zenon, <1>1, <2>2, <2>8, <1>PublishTracked
  <2> QED
    BY Zenon, <1>4, <2>3, <2>4, <2>5, <2>6, <2>7, <2>8 DEF Next
<1> QED
  BY Zenon, <1>2, <1>3, <1>4

\* The invariant holds in every reachable state.
THEOREM ModeInvariance == RecordsCovered => (Spec => []ModeInv)
<1> SUFFICES ASSUME RecordsCovered PROVE Spec => []ModeInv
  OBVIOUS
<1>1. ModeInv /\ [Next]_vars => ModeInv'
  BY Zenon, NextMode
<1> QED
  BY InitMode, <1>1, PTL DEF Spec

\* As long as the caller switches once per mode change, no switch without an old
\* set fails and no mode change hits a running task, the visible variant of a
\* different-package application is the current mode's: the migration, which does
\* not look at the mode, is never out of step with it.
THEOREM ModeStaysTracked == RecordsCovered => (Spec => []ModeTracked)
<1> SUFFICES ASSUME RecordsCovered PROVE Spec => []ModeTracked
  OBVIOUS
<1>1. ModeInv => ModeTracked
  BY Zenon DEF ModeInv, Lawful, Tracked, TrackedMode, OnSide, ModeTracked, Diff
<1> QED
  BY ModeInvariance, <1>1, PTL

\* The rows other than its own that a thread's step changes: none.
LEMMA StepIsolated ==
    ASSUME RecordsCovered, CloneInv, Agree, Tracked, NEW t \in Tasks, Step(t),
           NEW k \in Keys, k # <<task[t].name, task[t].key>>
    PROVE  row'[k] = row[k]
<1>1. CASE Name(t)
  BY Zenon, <1>1 DEF Name
<1>2. CASE FailDirs(t) \/ FailLate(t) \/ FailSave(t)
  <2>1. PICK n \in Names, c \in BOOLEAN : Undone(t, n, c)
    BY Zenon, <1>2, FailDirsUndone, FailLateUndone, FailSaveUndone
  <2> QED
    BY Zenon, <2>1 DEF Undone
<1>3. CASE Start(t)
  <2>1. /\ task[t].pc = "named" /\ ~Locked(task[t].name)
        /\ secondary' = secondary /\ boot' = boot /\ scanned' = scanned
    BY Zenon, <1>3 DEF Start
  <2>2. PICK n \in Names, c \in BOOLEAN : n = task[t].name /\ c = task[t].key
    BY <2>1, NamedFacts
  <2>3. CASE row' = row
    BY Zenon, <2>3
  <2>4. CASE (RollBackNew(t, lists[n], state[<<n, c>>]) \/ RollBackExisting(t)) /\ NextPass(t)
    <3>1. Undone(t, n, c)
      BY <2>1, <2>2, <2>4, StartRefused
    <3> QED
      BY Zenon, <3>1 DEF Undone
  <2> QED
    BY Zenon, <1>3, <2>2, <2>3, <2>4 DEF Start
<1>4. CASE Finish(t)
  <2>1. PICK r : r = task[t]
    OBVIOUS
  <2>2. r.pc = "started" /\ row' = [row EXCEPT ![<<r.name, r.clone>>] = r.policy]
    BY Zenon, <1>4, <2>1, Finished
  <2>3. r.clone = r.key
    BY Zenon, <2>1, <2>2 DEF Tracked, SameVariant
  <2> QED
    BY Zenon, <2>1, <2>2, <2>3 DEF CloneInv, RowsGood
<1> QED
  BY Zenon, <1>1, <1>2, <1>3, <1>4 DEF Step

\* The threads that a step leaves alone.
LEMMA StepAlone ==
    ASSUME CloneInv, NEW t \in Tasks, Step(t), NEW u \in Tasks \ {t}
    PROVE  task'[u] = task[u]
<1>1. CASE NextPass(t)
  BY Zenon, <1>1, NextParsed
<1>2. CASE ~NextPass(t)
  <2>1. \E q : task' = [task EXCEPT ![t] = q]
    BY Zenon, <1>2 DEF Step, Name, Start, FailDirs, FailLate, FailSave, Finish
  <2> QED
    BY Zenon, <2>1 DEF CloneInv, TasksGood
<1> QED
  BY Zenon, <1>1, <1>2

\* A thread that goes on writes its own variant's row only.
LEMMA NextIsolated ==
    ASSUME RecordsCovered, ModeInv, Next, Lawful', NEW t \in Tasks, task[t] # Idle, task'[t] # task[t],
           NEW k \in Keys, k # <<task[t].name, task[t].key>>
    PROVE  row'[k] = row[k]
<1>1. CloneInv
  BY Zenon DEF ModeInv, RecordsInv
<1>2. ASSUME NEW u \in Tasks, NEW n \in Names, NEW p \in Policies,
             Begin(u, n, p) \/ FirstBoot(u, n, p) \/ OtaNew(u, n, p) \/ OtaKnown(u, n, p)
      PROVE  FALSE
  <2>1. task[u] = Idle /\ \E q : task' = [task EXCEPT ![u] = q]
    BY Zenon, <1>2 DEF Begin, FirstBoot, OtaNew, OtaKnown, Scan
  <2>2. task'[t] = task[t]
    BY Zenon, <1>1, <2>1 DEF CloneInv, TasksGood
  <2> QED
    BY Zenon, <2>2
<1>3. ASSUME NEW u \in Tasks, Step(u) PROVE row'[k] = row[k]
  <2>1. ~Reboot => Agree /\ Tracked
    BY Zenon, <1>1, LawfulSticky DEF ModeInv, RecordsInv, Lawful
  <2>2. u = t
    BY Zenon, <1>1, <1>3, StepAlone
  <2>3. CASE Reboot
    BY Zenon, <2>3 DEF Reboot
  <2>4. CASE ~Reboot
    BY Zenon, <1>1, <1>3, <2>1, <2>2, <2>4, StepIsolated
  <2> QED
    BY Zenon, <2>3, <2>4
<1>4. ASSUME NEW n \in Names, Uninstall(n) PROVE FALSE
  BY Zenon, <1>4 DEF Uninstall
<1>5. ASSUME NEW set \in PolicySets, Switch(set) \/ SwitchFails(set) PROVE FALSE
  BY Zenon, <1>5 DEF Switch, SwitchFails
<1>6. CASE Flip \/ Publish \/ Reboot
  BY Zenon, <1>6 DEF Flip, Publish, Reboot
<1> QED
  BY Zenon, <1>2, <1>3, <1>4, <1>5, <1>6 DEF Next

\* A thread works on its own variant only, under the same conditions.
THEOREM VariantsStayIsolated == RecordsCovered => (Spec => VariantIsolated)
<1> SUFFICES ASSUME RecordsCovered PROVE Spec => VariantIsolated
  OBVIOUS
<1>1. ModeInv /\ ModeInv' /\ [Next]_vars =>
        [Orderly' /\ env'.contract /\ ~env'.adrift =>
            \A t \in Tasks : task[t] # Idle /\ task'[t] # task[t] =>
                /\ \A k \in Keys : k # <<task[t].name, task[t].key>> => row'[k] = row[k]
                /\ task'[t].pc = "started" => task'[t].clone = task'[t].key]_vars
  <2> SUFFICES ASSUME ModeInv, ModeInv', Next, Orderly', env'.contract, ~env'.adrift,
                      NEW t \in Tasks, task[t] # Idle, task'[t] # task[t]
               PROVE  /\ \A k \in Keys : k # <<task[t].name, task[t].key>> => row'[k] = row[k]
                      /\ task'[t].pc = "started" => task'[t].clone = task'[t].key
    BY Zenon
  <2>1. Lawful'
    BY Zenon DEF Lawful
  <2>2. Tracked'
    BY Zenon, <2>1 DEF ModeInv
  <2> QED
    BY Zenon, <2>1, <2>2, NextIsolated DEF Tracked, SameVariant
<1> QED
  BY ModeInvariance, <1>1, PTL DEF Spec, VariantIsolated

----------------------------------------------------------------------------
\* The place of every entry.

\* As Lawful, but that a failed switch does no harm once there is a policy set.
Kempt == env.contract /\ Orderly /\ (persisted # {} \/ ~env.adrift)

Arranged ==
    /\ Orderly => \A n \in Names : Specified(lists[n])
    /\ Kempt => \A n \in Names \ env.fresh : Laid(lists[n], persisted, TrackedMode)

\* The inductive invariant.
PlaceInv == RecordsInv /\ Arranged

\* An empty device has nothing out of place.
LEMMA InitPlace == Init => PlaceInv
<1> SUFFICES ASSUME Init PROVE Arranged
  BY Zenon, InitRecords DEF PlaceInv
<1>1. \A n \in Names : lists[n].vis = Absent /\ lists[n].tmp = Absent
  BY DEF Init, Pair
<1> QED
  BY Zenon, <1>1 DEF Arranged, Specified, Laid

\* Every step keeps the invariant, in the same manner.
LEMMA NextPlace ==
    ASSUME RecordsCovered, PlaceInv, [Next]_vars
    PROVE  PlaceInv'

\* Two entries stay two of a different-package application.
<1>MigratePaired.
    ASSUME NEW x \in GoodPairs, NEW set, Paired(x)
    PROVE  Paired(Migrate(x, set))
  <2> USE <1>MigratePaired
  <2>1. PICK v, w : v = x.vis /\ w = x.tmp
    OBVIOUS
  <2>2. x = Pair(v, w)
    BY Zenon, <2>1, PairFields
  <2>3. PICK y : y = Migrate(x, set)
    OBVIOUS
  <2>4. Migrate(Pair(v, w), set) = Pair(Absent, v) \/ Migrate(Pair(v, w), set) = Pair(w, v)
        \/ Migrate(Pair(v, w), set) = Pair(v, w)
    BY Zenon, MigrateCases
  <2>5. (y.vis = Absent) \/ (y.vis = w /\ y.tmp = v) \/ (y.vis = v /\ y.tmp = w)
    <3>1. /\ Pair(Absent, v).vis = Absent /\ Pair(w, v).vis = w /\ Pair(w, v).tmp = v
          /\ Pair(v, w).vis = v /\ Pair(v, w).tmp = w
      BY Zenon, PairHas
    <3> QED
      BY Zenon, <2>2, <2>3, <2>4, <3>1
  <2> QED
    BY Zenon, <2>1, <2>3, <2>5 DEF Paired

\* A switch puts every other application where the new set has it.
<1>MigrateLays.
    ASSUME NEW x \in GoodPairs, NEW set, IsValidPolicySet(set), NEW m, Paired(x), Specified(x)
    PROVE  Laid(Migrate(x, set), set, m) /\ Placed(Migrate(x, set), set) /\ Specified(Migrate(x, set))
  <2> USE <1>MigrateLays
  <2>1. x = Pair(x.vis, x.tmp)
    BY Zenon, PairFields
  <2>2. PICK y : y = Migrate(x, set)
    OBVIOUS
  <2>3. Placed(y, set)
    <3>1. Placed(Migrate(Pair(x.vis, x.tmp), set), set)
      BY Zenon, SwitchPlaces DEF Paired, Specified, Diff
    <3> QED
      BY Zenon, <2>1, <2>2, <3>1
  <2>4. set # {}
    BY DEF IsValidPolicySet
  <2>5. Laid(y, set, m) /\ Specified(y)
    BY Zenon, <2>3, <2>4 DEF Placed, Laid, HiddenBy, Specified, Diff
  <2> QED
    BY Zenon, <2>2, <2>3, <2>5

\* A step that keeps the mode, the set and the place of every entry.
<1>ArrangedStep.
    ASSUME Arranged, secondary' = secondary, persisted' = persisted, env'.pending = env.pending,
           Kempt' => Kempt, \A n \in Names : Specified(lists'[n]),
           \A n \in Names \ env'.fresh :
              /\ n \notin env.fresh
              /\ Laid(lists[n], persisted, TrackedMode) => Laid(lists'[n], persisted, TrackedMode)
    PROVE  Arranged'
  <2> USE <1>ArrangedStep
  <2>1. TrackedMode' = TrackedMode
    BY Zenon DEF TrackedMode
  <2>2. \A n \in Names : Specified(lists[n])'
    BY Zenon DEF Specified
  <2>3. Kempt' => \A n \in Names \ env'.fresh : Laid(lists'[n], persisted', TrackedMode')
    BY Zenon, <2>1 DEF Arranged
  <2> QED
    BY Zenon, <2>2, <2>3 DEF Arranged, Laid

\* A step that leaves the lists.
<1>ArrangedSame.
    ASSUME Arranged, Orderly, secondary' = secondary, persisted' = persisted, env'.pending = env.pending,
           env'.fresh = env.fresh, Kempt' => Kempt, lists' = lists
    PROVE  Arranged'
  <2> USE <1>ArrangedSame
  <2>1. \A n \in Names : Specified(lists'[n])
    BY Zenon DEF Arranged
  <2> QED
    BY Zenon, <2>1, <1>ArrangedStep

\* What the history notes of an installation that begins.
<1>NotedPlace.
    ASSUME CloneInv, NEW t \in Tasks, NEW n \in Names, NEW p \in Policies,
           Begin(t, n, p) \/ FirstBoot(t, n, p) \/ OtaNew(t, n, p) \/ OtaKnown(t, n, p)
    PROVE  /\ env'.pending = env.pending /\ env'.fresh = env.fresh
           /\ secondary' = secondary /\ persisted' = persisted
    BY Zenon, <1>NotedPlace DEF Begin, FirstBoot, OtaNew, OtaKnown, InstallNoted, Scan, CloneInv,
       OtherTypes

\* Begin, FirstBoot and OtaNew
<1>ParseArranged.
    ASSUME CloneInv, Arranged, Orderly, Kempt' => Kempt, NEW t \in Tasks, NEW n \in Names, NEW p \in Policies,
           Begin(t, n, p) \/ FirstBoot(t, n, p) \/ OtaNew(t, n, p)
    PROVE  Arranged'
  <2> USE <1>ParseArranged
  <2>1. lists' = lists
    BY Zenon DEF Begin, FirstBoot, OtaNew
  <2>2. /\ env'.pending = env.pending /\ env'.fresh = env.fresh
        /\ secondary' = secondary /\ persisted' = persisted
    BY Zenon, <1>NotedPlace
  <2> QED
    BY Zenon, <2>1, <2>2, <1>ArrangedSame

\* Entries of a different-package policy are in place wherever they are.
<1>DiffLaid.
    ASSUME NEW x, x.vis = Absent \/ Diff(x.vis.policy), x.tmp = Absent \/ Diff(x.tmp.policy), NEW set, NEW m
    PROVE  Laid(x, set, m) /\ Specified(x)
  <2> USE <1>DiffLaid
  <2>1. ~Diff(UNSPECIFIED)
    BY DEF Diff, IsDiffPackageCategory, UNSPECIFIED
  <2> QED
    BY Zenon, <2>1 DEF Laid, Specified

\* UpdateDualPolicy leaves a visible application with entries of the new policy.
<1>UpdatePolicies.
    ASSUME CloneInv, CloneInv', Agree, NEW n \in Names, NEW p \in Policies, Diff(p), UpdateDualPolicy(n, p),
           lists[n].vis # Absent
    PROVE  /\ lists'[n].vis = Absent \/ Diff(lists'[n].vis.policy)
           /\ lists'[n].tmp = Absent \/ Diff(lists'[n].tmp.policy)
  <2> USE <1>UpdatePolicies
  <2>1. Exact(n)' /\ \A c \in BOOLEAN : row'[<<n, c>>] = IF Has(n, c) THEN p ELSE NoPolicy
    BY Zenon, UpdateVisible
  <2>2. PICK a, b : a = row'[<<n, FALSE>>] /\ b = row'[<<n, TRUE>>]
    OBVIOUS
  <2>3. a \in Rows /\ b \in Rows /\ a \in {p, NoPolicy} /\ b \in {p, NoPolicy}
    BY Zenon, <2>1, <2>2 DEF CloneInv, RowsGood, Keys
  <2>4. Shown(lists'[n].vis, lists'[n].tmp, a, b)
    BY Zenon, <2>1, <2>2 DEF Exact
  <2>5. PICK v, w : v = lists'[n].vis /\ w = lists'[n].tmp
    OBVIOUS
  <2>6. Shown(v, w, a, b)
    BY Zenon, <2>4, <2>5
  <2>7. /\ v = Absent \/ (v.policy = a /\ a # NoPolicy) \/ (v.policy = b /\ b # NoPolicy)
        /\ w = Absent \/ (w.policy = a /\ a # NoPolicy) \/ (w.policy = b /\ b # NoPolicy)
    <3>1. /\ EntryOf(a, FALSE) = Absent <=> a = NoPolicy
          /\ EntryOf(b, TRUE) = Absent <=> b = NoPolicy
          /\ EntryOf(a, FALSE).policy = a /\ EntryOf(b, TRUE).policy = b
      BY Zenon, <2>3, RowFacts
    <3> QED
      BY Zenon, <2>6, <3>1 DEF Shown
  <2> QED
    BY Zenon, <2>3, <2>5, <2>7

\* OtaKnown
<1>OtaKnownArranged.
    ASSUME CloneInv, CloneInv', Agree, Arranged, Orderly, Kempt' => Kempt,
           NEW t \in Tasks, NEW n \in Names, NEW p \in Policies, OtaKnown(t, n, p)
    PROVE  Arranged'
  <2> USE <1>OtaKnownArranged
  <2>1. /\ env'.pending = env.pending /\ env'.fresh = env.fresh
        /\ secondary' = secondary /\ persisted' = persisted
    BY Zenon, <1>NotedPlace
  <2>2. CASE ~Diff(p)
    <3>1. lists' = lists
      BY Zenon, <2>2 DEF OtaKnown, Diff
    <3> QED
      BY Zenon, <2>1, <3>1, <1>ArrangedSame
  <2>3. CASE Diff(p)
    <3>1. UpdateDualPolicy(n, p)
      BY Zenon, <2>3 DEF OtaKnown, Diff
    <3>2. \A m \in Names \ {n} : lists'[m] = lists[m]
      BY Zenon, <3>1 DEF UpdateDualPolicy, CloneInv, ListsGood
    <3>3. \/ lists'[n] = lists[n]
          \/ Laid(lists'[n], persisted, TrackedMode) /\ Specified(lists'[n])
      <4>1. CASE lists[n].vis = Absent
        BY Zenon, <3>1, <4>1, UpdateHidden
      <4>2. CASE lists[n].vis # Absent
        <5>1. /\ lists'[n].vis = Absent \/ Diff(lists'[n].vis.policy)
              /\ lists'[n].tmp = Absent \/ Diff(lists'[n].tmp.policy)
          BY Zenon, <2>3, <3>1, <4>2, <1>UpdatePolicies
        <5> QED
          BY Zenon, <5>1, <1>DiffLaid
      <4> QED
        BY Zenon, <4>1, <4>2
    <3>4. \A m \in Names : Specified(lists'[m])
      BY Zenon, <3>2, <3>3 DEF Arranged
    <3>5. \A m \in Names : Laid(lists[m], persisted, TrackedMode) => Laid(lists'[m], persisted, TrackedMode)
      BY Zenon, <3>2, <3>3
    <3> QED
      BY Zenon, <2>1, <3>4, <3>5, <1>ArrangedStep
  <2> QED
    BY Zenon, <2>2, <2>3

\* The steps of a thread other than Finish.
<1>StepArranged.
    ASSUME RecordsCovered, CloneInv, Agree, Arranged, Orderly, Kempt' => Kempt, NEW t \in Tasks,
           Name(t) \/ Start(t) \/ FailDirs(t) \/ FailLate(t) \/ FailSave(t)
    PROVE  Arranged'
  <2> USE <1>StepArranged
  <2>1. secondary' = secondary /\ persisted' = persisted /\ env' = env
    BY Zenon DEF Name, Start, FailDirs, FailLate, FailSave
  <2>2. ASSUME Name(t) PROVE lists' = lists
    BY Zenon, <2>2 DEF Name
  <2>3. ASSUME FailDirs(t) \/ FailLate(t) \/ FailSave(t) PROVE lists' = lists
    <3>1. PICK n \in Names, c \in BOOLEAN : Undone(t, n, c)
      BY Zenon, <2>3, FailDirsUndone, FailLateUndone, FailSaveUndone
    <3> QED
      BY Zenon, <3>1 DEF Undone
  <2>4. ASSUME Start(t) PROVE lists' = lists
    <3>1. /\ task[t].pc = "named" /\ ~Locked(task[t].name)
          /\ secondary' = secondary /\ boot' = boot /\ scanned' = scanned
      BY Zenon, <2>4 DEF Start
    <3>2. PICK n \in Names, c \in BOOLEAN : n = task[t].name /\ c = task[t].key
      BY <3>1, NamedFacts
    <3>3. CASE lists' = lists
      BY Zenon, <3>3
    <3>4. CASE (RollBackNew(t, lists[n], state[<<n, c>>]) \/ RollBackExisting(t)) /\ NextPass(t)
      <4>1. Undone(t, n, c)
        BY <3>1, <3>2, <3>4, StartRefused
      <4> QED
        BY Zenon, <4>1 DEF Undone
    <3> QED
      BY Zenon, <2>4, <3>2, <3>3, <3>4 DEF Start
  <2> QED
    BY Zenon, <2>1, <2>2, <2>3, <2>4, <1>ArrangedSame

\* Finish: what comes to the hidden list has a policy.
<1>FinishArranged.
    ASSUME CloneInv, Agree, Arranged, Orderly, Kempt' => Kempt, NEW t \in Tasks, Finish(t)
    PROVE  Arranged'
  <2> USE <1>FinishArranged
  <2>1. PICK r : r = task[t]
    OBVIOUS
  <2>2. /\ r.pc = "started" /\ r.pc # "idle" /\ r.name \in Names /\ r.policy \in Policies /\ r.clone \in BOOLEAN
        /\ lists'[r.name] = WithEntry(lists[r.name], IsCrossModeInstall(r), Entry(r.policy, r.clone))
        /\ \A m \in Names \ {r.name} : lists'[m] = lists[m]
        /\ env' = [env EXCEPT !.fresh = @ \union {r.name}]
        /\ secondary' = secondary /\ persisted' = persisted
    BY Zenon, <2>1, Finished
  <2>3. env'.pending = env.pending /\ env'.fresh = env.fresh \union {r.name}
    BY Zenon, <2>2 DEF CloneInv, OtherTypes
  <2>4. Specified(lists'[r.name])
    <3>1. CASE IsCrossModeInstall(r)
      <4>1. lists'[r.name].tmp.policy = r.policy
        BY <2>2, <3>1 DEF WithEntry, Pair, Entry
      <4>2. r.role # "NONE" => Diff(r.policy)
        BY Zenon, <2>1, <2>2 DEF Agree, TaskInv, NamedInv
      <4>3. Diff(r.policy) \/ ShouldBeHidden(r.policy, secondary)
        BY Zenon, <3>1, <4>2 DEF IsCrossModeInstall
      <4>4. r.policy # UNSPECIFIED
        BY <4>3 DEF Diff, IsDiffPackageCategory, ShouldBeHidden, MAIN_ONLY, SUB_ONLY, UNSPECIFIED
      <4> QED
        BY Zenon, <4>1, <4>4 DEF Specified
    <3>2. CASE ~IsCrossModeInstall(r)
      <4>1. lists'[r.name].tmp = lists[r.name].tmp
        BY <2>2, <3>2 DEF WithEntry, Pair
      <4> QED
        BY Zenon, <2>2, <4>1 DEF Arranged, Specified
    <3> QED
      BY Zenon, <3>1, <3>2
  <2>5. \A n \in Names : Specified(lists'[n])
    BY Zenon, <2>2, <2>4 DEF Arranged
  <2>6. \A n \in Names \ env'.fresh : n \notin env.fresh /\ lists'[n] = lists[n]
    BY Zenon, <2>2, <2>3
  <2> QED
    BY Zenon, <2>2, <2>3, <2>5, <2>6, <1>ArrangedStep

\* Uninstall
<1>UninstallArranged.
    ASSUME CloneInv, Arranged, Orderly, Kempt' => Kempt, NEW n \in Names, Uninstall(n)
    PROVE  Arranged'
  <2> USE <1>UninstallArranged
  <2>1. /\ lists' = [lists EXCEPT ![n] = Pair(Absent, lists[n].tmp)]
        /\ secondary' = secondary /\ persisted' = persisted /\ env' = env
    BY Zenon DEF Uninstall, DeleteBundleInfo
  <2>2. ASSUME NEW m \in Names
        PROVE  /\ Specified(lists'[m])
               /\ Laid(lists[m], persisted, TrackedMode) => Laid(lists'[m], persisted, TrackedMode)
    <3>1. lists'[m] = IF m = n THEN Pair(Absent, lists[m].tmp) ELSE lists[m]
      BY Zenon, <2>1 DEF CloneInv, ListsGood
    <3>2. Specified(lists[m])
      BY Zenon DEF Arranged
    <3>3. CASE m = n
      <4>1. lists'[m].vis = Absent /\ lists'[m].tmp = lists[m].tmp
        BY <3>1, <3>3 DEF Pair
      <4> QED
        BY Zenon, <3>2, <4>1 DEF Specified, Laid
    <3>4. CASE m # n
      BY Zenon, <3>1, <3>2, <3>4
    <3> QED
      BY Zenon, <3>3, <3>4
  <2> QED
    BY Zenon, <2>1, <2>2, <1>ArrangedStep

\* Steps that put every entry in its place.
<1>ArrangedAll.
    ASSUME \A n \in Names : Specified(lists'[n]) /\ (Kempt' => Laid(lists'[n], persisted', TrackedMode'))
    PROVE  Arranged'
  <2> USE <1>ArrangedAll
  <2>1. \A n \in Names : Specified(lists[n])'
    BY Zenon DEF Specified
  <2>2. Kempt' => \A n \in Names \ env'.fresh : Laid(lists[n], persisted, TrackedMode)'
    BY Zenon DEF Laid
  <2> QED
    BY Zenon, <2>1, <2>2 DEF Arranged

\* Switch
<1>SwitchArranged.
    ASSUME CloneInv, Agree, Arranged, Orderly, NEW set \in PolicySets, Switch(set)
    PROVE  Arranged'
  <2> USE <1>SwitchArranged
  <2>1. lists' = MigrateAll(set) /\ persisted' = set /\ IsValidPolicySet(set)
    BY Zenon, ValidSets DEF Switch
  <2>2. ASSUME NEW n \in Names
        PROVE  Specified(lists'[n]) /\ Laid(lists'[n], persisted', TrackedMode')
    <3>1. lists'[n] = Migrate(lists[n], set) /\ lists[n] \in GoodPairs
      BY Zenon, <2>1 DEF MigrateAll, CloneInv, ListsGood
    <3>2. Paired(lists[n]) /\ Specified(lists[n])
      BY Zenon, AgreePaired DEF Arranged
    <3>3. Specified(Migrate(lists[n], set)) /\ \A m : Laid(Migrate(lists[n], set), set, m)
      BY Zenon, <2>1, <3>1, <3>2, <1>MigrateLays
    <3> QED
      BY Zenon, <2>1, <3>1, <3>3
  <2> QED
    BY Zenon, <2>2, <1>ArrangedAll

\* A single-mode entry that the mode hides has a policy.
<1>ClassifySpecified.
    ASSUME NEW y, NEW sec, Specified(y)
    PROVE  Specified(ClassifyByDeviceMode(y, sec))
  <2> USE <1>ClassifySpecified
  <2>1. \A p : ShouldBeHidden(p, sec) => p # UNSPECIFIED
    BY DEF ShouldBeHidden, MAIN_ONLY, SUB_ONLY, UNSPECIFIED
  <2>2. CASE ShouldBeHidden(y.vis.policy, sec)
    <3>1. ClassifyByDeviceMode(y, sec).tmp = y.vis
      BY <2>2 DEF ClassifyByDeviceMode, Pair
    <3> QED
      BY Zenon, <2>1, <2>2, <3>1 DEF Specified
  <2>3. CASE ~ShouldBeHidden(y.vis.policy, sec)
    <3>1. ClassifyByDeviceMode(y, sec).tmp = Absent \/ ClassifyByDeviceMode(y, sec) = y
      BY <2>3 DEF ClassifyByDeviceMode, Pair
    <3> QED
      BY Zenon, <3>1 DEF Specified
  <2> QED
    BY Zenon, <2>2, <2>3

\* SwitchFails
<1>SwitchFailsArranged.
    ASSUME CloneInv, Agree, Arranged, Orderly, NEW set \in PolicySets, SwitchFails(set)
    PROVE  Arranged'
  <2> USE <1>SwitchFailsArranged
  <2>1. persisted' = persisted /\ IsValidPolicySet(set) /\ (persisted # {} => IsValidPolicySet(persisted))
    BY Zenon, ValidSets DEF SwitchFails
  <2>2. persisted = {} => ~Kempt'
    BY Zenon, <2>1 DEF SwitchFails, Kempt, CloneInv, OtherTypes
  <2>3. ASSUME NEW n \in Names
        PROVE  Specified(lists'[n]) /\ (Kempt' => Laid(lists'[n], persisted', TrackedMode'))
    <3>1. PICK y : y = Migrate(lists[n], set)
      OBVIOUS
    <3>2. lists[n] \in GoodPairs /\ Paired(lists[n]) /\ Specified(lists[n])
      BY Zenon, AgreePaired DEF CloneInv, ListsGood, Arranged
    <3>3. Specified(y) /\ y \in GoodPairs
      BY Zenon, <2>1, <3>1, <3>2, <1>MigrateLays, MigrateGood
    <3>4. CASE persisted # {}
      <4>1. lists'[n] = Migrate(y, persisted)
        BY Zenon, <3>1, <3>4 DEF SwitchFails, RollBackSwitch
      <4>2. Paired(y)
        BY Zenon, <2>1, <3>1, <3>2, <1>MigratePaired
      <4>3. Specified(Migrate(y, persisted)) /\ \A m : Laid(Migrate(y, persisted), persisted, m)
        BY Zenon, <2>1, <3>3, <3>4, <4>2, <1>MigrateLays
      <4> QED
        BY Zenon, <2>1, <4>1, <4>3
    <3>5. CASE persisted = {}
      <4>1. lists'[n] = ClassifyByDeviceMode(y, secondary)
        BY Zenon, <3>1, <3>5 DEF SwitchFails
      <4> QED
        BY Zenon, <2>2, <3>3, <3>5, <4>1, <1>ClassifySpecified
    <3> QED
      BY Zenon, <3>4, <3>5
  <2> QED
    BY Zenon, <2>3, <1>ArrangedAll

\* Flip
<1>FlipArranged.
    ASSUME CloneInv, Arranged, Orderly, Kempt' => Kempt, Flip
    PROVE  Arranged'
  <2> USE <1>FlipArranged
  <2>1. /\ lists' = lists /\ persisted' = persisted /\ secondary' = ~secondary
        /\ env' = [env EXCEPT !.pending = TRUE, !.contract = @ /\ ~env.pending,
                              !.torn = @ \/ ~AllIdle \/ boot # "up"]
    BY Zenon DEF Flip
  <2>2. env'.pending /\ env'.fresh = env.fresh /\ (Kempt' => ~env.pending) /\ secondary \in BOOLEAN
    BY Zenon, <2>1 DEF Kempt, CloneInv, OtherTypes
  <2>3. Kempt' => TrackedMode' = TrackedMode
    BY Zenon, <2>1, <2>2 DEF TrackedMode
  <2>4. \A n \in Names : Specified(lists[n])'
    BY Zenon, <2>1 DEF Arranged, Specified
  <2>5. Kempt' => \A n \in Names \ env'.fresh : Laid(lists'[n], persisted', TrackedMode')
    BY Zenon, <2>1, <2>2, <2>3 DEF Arranged
  <2> QED
    BY Zenon, <2>4, <2>5 DEF Arranged, Laid

\* Reboot
<1>RebootArranged.
    ASSUME CloneInv, Agree, Reboot
    PROVE  Arranged'
  <2> USE <1>RebootArranged
  <2>1. /\ persisted' = persisted /\ secondary' = secondary /\ secondary \in BOOLEAN
        /\ env' = [env EXCEPT !.pending = FALSE, !.contract = TRUE, !.adrift = FALSE, !.fresh = {}]
    BY Zenon DEF Reboot, CloneInv, OtherTypes
  <2>2. env'.pending = FALSE
    BY Zenon, <2>1 DEF CloneInv, OtherTypes
  <2>3. TrackedMode' = secondary
    BY Zenon, <2>1, <2>2 DEF TrackedMode
  <2>4. ASSUME NEW n \in Names PROVE Specified(lists'[n]) /\ Laid(lists'[n], persisted', TrackedMode')
    <3>1. PICK a \in Rows, b \in Rows : a = row[<<n, FALSE>>] /\ b = row[<<n, TRUE>>] /\ Fit(a, b)
      BY Zenon DEF Agree, NameInv, Exact, CloneInv, RowsGood, Keys
    <3>2. lists'[n] = Boot(a, b, persisted, secondary)
      BY Zenon, <3>1 DEF Reboot
    <3>3. Laid(lists'[n], persisted, secondary) /\ Specified(lists'[n])
      BY Zenon, <2>1, <3>1, <3>2, BootLays
    <3> QED
      BY Zenon, <2>1, <2>3, <3>3
  <2> QED
    BY Zenon, <2>4, <1>ArrangedAll

\* Only a restart or a switch can put the entries in their places again.
<1>KemptSticky.
    ASSUME CloneInv, Next, ~Reboot, persisted' = persisted
    PROVE  Kempt' => Kempt
    BY Zenon, <1>KemptSticky, OrderlySticky, EnvSticky DEF Kempt

<1>1. RecordsInv /\ RecordsInv' /\ CloneInv /\ CloneInv'
  BY Zenon, NextRecords DEF PlaceInv, RecordsInv
<1> SUFFICES Arranged'
  BY Zenon, <1>1 DEF PlaceInv
<1>2. CASE UNCHANGED vars
  BY Zenon, <1>2 DEF vars, PlaceInv, Arranged, Orderly, Kempt, Specified, Laid, TrackedMode
<1>3. CASE Next /\ ~Orderly'
  BY Zenon, <1>3 DEF Arranged, Kempt
<1>4. CASE Next /\ Orderly'
  <2>1. Orderly /\ Agree /\ Arranged
    BY Zenon, <1>1, <1>4, OrderlySticky DEF PlaceInv, RecordsInv
  <2>2. ~Reboot /\ persisted' = persisted => (Kempt' => Kempt)
    BY Zenon, <1>1, <1>4, <1>KemptSticky
  <2>3. CASE Reboot
    BY Zenon, <1>1, <2>1, <2>3, <1>RebootArranged
  <2>4. ASSUME ~Reboot, NEW t \in Tasks, NEW n \in Names, NEW p \in Policies,
               Begin(t, n, p) \/ FirstBoot(t, n, p) \/ OtaNew(t, n, p) \/ OtaKnown(t, n, p)
        PROVE  Arranged'
    <3>1. Kempt' => Kempt
      BY Zenon, <1>1, <2>2, <2>4, <1>NotedPlace
    <3> QED
      BY Zenon, <1>1, <2>1, <2>4, <3>1, <1>ParseArranged, <1>OtaKnownArranged
  <2>5. ASSUME ~Reboot, NEW t \in Tasks, Step(t)
        PROVE  Arranged'
    <3>1. persisted' = persisted
      BY Zenon, <2>5 DEF Step, Name, Start, FailDirs, FailLate, FailSave, Finish
    <3>2. Kempt' => Kempt
      BY Zenon, <2>2, <2>5, <3>1
    <3> QED
      BY Zenon, <1>1, <2>1, <2>5, <3>2, <1>StepArranged, <1>FinishArranged DEF Step
  <2>6. ASSUME ~Reboot, NEW n \in Names, Uninstall(n)
        PROVE  Arranged'
    <3>1. Kempt' => Kempt
      BY Zenon, <2>2, <2>6 DEF Uninstall
    <3> QED
      BY Zenon, <1>1, <2>1, <2>6, <3>1, <1>UninstallArranged
  <2>7. ASSUME NEW set \in PolicySets, Switch(set) \/ SwitchFails(set)
        PROVE  Arranged'
    BY Zenon, <1>1, <2>1, <2>7, <1>SwitchArranged, <1>SwitchFailsArranged
  <2>8. ASSUME ~Reboot, Flip PROVE Arranged'
    <3>1. Kempt' => Kempt
      BY Zenon, <2>2, <2>8 DEF Flip
    <3> QED
      BY Zenon, <1>1, <2>1, <2>8, <3>1, <1>FlipArranged
  <2>9. ASSUME ~Reboot, Publish PROVE Arranged'
    <3>1. Kempt' => Kempt
      BY Zenon, <2>2, <2>9 DEF Publish
    <3> QED
      BY Zenon, <2>1, <2>9, <3>1, <1>ArrangedSame DEF Publish
  <2> QED
    BY Zenon, <1>4, <2>3, <2>4, <2>5, <2>6, <2>7, <2>8, <2>9 DEF Next
<1> QED
  BY Zenon, <1>2, <1>3, <1>4

\* The invariant holds in every reachable state.
THEOREM PlaceInvariance == RecordsCovered => (Spec => []PlaceInv)
<1> SUFFICES ASSUME RecordsCovered PROVE Spec => []PlaceInv
  OBVIOUS
<1>1. PlaceInv /\ [Next]_vars => PlaceInv'
  BY Zenon, NextPlace
<1> QED
  BY InitPlace, <1>1, PTL DEF Spec

\* The two invariants leave one place for every entry, the one the boot gives it.
LEMMA OnePlace ==
    ASSUME ModeInv, PlaceInv, Lawful, ~env.pending, NEW n \in Names \ env.fresh
    PROVE  lists[n] = Boot(row[<<n, FALSE>>], row[<<n, TRUE>>], persisted, secondary)
<1>1. CloneInv /\ Agree /\ Tracked /\ Arranged
  BY Zenon DEF ModeInv, PlaceInv, RecordsInv, Lawful
<1>2. TrackedMode = secondary /\ secondary \in BOOLEAN /\ Kempt
  BY Zenon, <1>1 DEF TrackedMode, CloneInv, OtherTypes, Kempt, Lawful
<1>3. OnSide(lists[n], secondary) /\ Laid(lists[n], persisted, secondary)
  BY Zenon, <1>1, <1>2 DEF Tracked, Arranged
<1>4. PICK a \in Rows, b \in Rows :
        /\ a = row[<<n, FALSE>>] /\ b = row[<<n, TRUE>>]
        /\ Fit(a, b) /\ Shown(lists[n].vis, lists[n].tmp, a, b)
  BY Zenon, <1>1 DEF Agree, NameInv, Exact, CloneInv, RowsGood, Keys
<1>5. PICK x \in GoodPairs : x = lists[n]
  BY Zenon, <1>1 DEF CloneInv, ListsGood
<1>6. x = Boot(a, b, persisted, secondary)
  BY <1>2, <1>3, <1>4, <1>5, BootUnique
<1> QED
  BY Zenon, <1>4, <1>5, <1>6

\* Memory and the persisted set stay consistent: a restart would leave every
\* entry where it is, but for applications installed since the last switch, as
\* long as the caller switches once per mode change and no switch without an old
\* set fails.
THEOREM RestartChangesNothing == RecordsCovered => (Spec => []RebootAgrees)
<1> SUFFICES ASSUME RecordsCovered PROVE Spec => []RebootAgrees
  OBVIOUS
<1>1. ModeInv /\ PlaceInv => RebootAgrees
  BY Zenon, OnePlace DEF RebootAgrees, Lawful
<1> QED
  BY ModeInvariance, PlaceInvariance, <1>1, PTL

\* An uninstallation removes a row.
LEMMA UninstallRow ==
    ASSUME CloneInv, Agree, NEW n \in Names, Uninstall(n)
    PROVE  row' # row
<1>1. lists[n].vis # Absent /\ row' = [row EXCEPT ![<<n, lists[n].vis.clone>>] = NoPolicy]
  BY Zenon DEF Uninstall, DeleteBundleInfo
<1>2. Exact(n)
  BY Zenon DEF Agree, NameInv
<1>3. PICK e \in {lists[n].vis, lists[n].tmp} : e = lists[n].vis
  BY Zenon
<1>4. e.clone \in BOOLEAN /\ Has(n, e.clone)
  BY Zenon, <1>1, <1>2, <1>3, EntryRow
<1>5. row'[<<n, e.clone>>] = NoPolicy
  BY Zenon, <1>1, <1>3, <1>4 DEF CloneInv, RowsGood, Keys
<1> QED
  BY Zenon, <1>4, <1>5 DEF Has

\* A failed switch moves the entries to the new set and back.
LEMMA SwitchFailsRestores ==
    ASSUME PlaceInv, Orderly, env.contract, persisted # {}, NEW set \in PolicySets, SwitchFails(set),
           NEW n \in Names \ env.fresh
    PROVE  lists'[n] = lists[n]
<1>1. CloneInv /\ Arranged
  BY Zenon DEF PlaceInv, RecordsInv
<1>2. Kempt
  BY Zenon DEF Kempt
<1>3. Laid(lists[n], persisted, TrackedMode) /\ Specified(lists[n])
  BY Zenon, <1>1, <1>2 DEF Arranged
<1>4. Placed(lists[n], persisted)
  BY Zenon, <1>3 DEF Placed, Laid, HiddenBy, Specified, Diff
<1>5. IsValidPolicySet(set) /\ IsValidPolicySet(persisted)
  BY Zenon, <1>1, ValidSets
<1>6. lists'[n] = RollBackSwitch(lists[n], set, persisted) /\ lists[n] \in GoodPairs
  BY Zenon, <1>1 DEF SwitchFails, CloneInv, ListsGood
<1> QED
  BY Zenon, <1>4, <1>5, <1>6, SwitchUndone

\* A step that changes neither the rows, the persisted set nor the history.
LEMMA NextRestores ==
    ASSUME ModeInv, PlaceInv, Next, boot = "up", AllIdle, Orderly, persisted # {},
           persisted' = persisted, env' = env, row' = row, NEW n \in Names \ env.fresh, env.contract
    PROVE  lists'[n] = lists[n]
<1>1. CloneInv /\ Agree
  BY Zenon DEF ModeInv, RecordsInv
<1>2. ASSUME NEW t \in Tasks, NEW m \in Names, NEW p \in Policies,
             Begin(t, m, p) \/ FirstBoot(t, m, p) \/ OtaNew(t, m, p) \/ OtaKnown(t, m, p)
      PROVE  lists' = lists
  BY Zenon, <1>2 DEF Begin, FirstBoot, OtaNew, OtaKnown, Scan
<1>3. ASSUME NEW t \in Tasks, Step(t) PROVE FALSE
  <2>1. task[t].pc \in {"parsed", "named", "started"}
    BY Zenon, <1>3 DEF Step, Name, Start, FailDirs, FailLate, FailSave, Finish
  <2> QED
    BY Zenon, <2>1, IdleGood DEF AllIdle
<1>4. ASSUME NEW m \in Names, Uninstall(m) PROVE FALSE
  BY Zenon, <1>1, <1>4, UninstallRow
<1>5. ASSUME NEW set \in PolicySets, Switch(set) PROVE FALSE
  BY Zenon, <1>5 DEF Switch
<1>6. ASSUME NEW set \in PolicySets, SwitchFails(set) PROVE lists'[n] = lists[n]
  BY Zenon, <1>6, SwitchFailsRestores
<1>7. CASE Flip \/ Publish
  BY Zenon, <1>7 DEF Flip, Publish
<1>8. CASE Reboot
  <2>1. ~env.adrift /\ ~env.pending
    BY Zenon, <1>1, <1>8 DEF Reboot, CloneInv, OtherTypes
  <2>2. lists[n] = Boot(row[<<n, FALSE>>], row[<<n, TRUE>>], persisted, secondary)
    BY Zenon, <2>1, OnePlace DEF Lawful
  <2> QED
    BY Zenon, <1>8, <2>2 DEF Reboot
<1> QED
  BY Zenon, <1>2, <1>3, <1>4, <1>5, <1>6, <1>7, <1>8 DEF Next

\* A switch whose save fails leaves every entry where it was, for every policy
\* set, but for applications installed since the last switch.
THEOREM FailedSwitchRestores == RecordsCovered => (Spec => SwitchRestores)
<1> SUFFICES ASSUME RecordsCovered PROVE Spec => SwitchRestores
  OBVIOUS
<1>1. ModeInv /\ PlaceInv /\ [Next]_vars =>
        [boot = "up" /\ AllIdle /\ Orderly /\ persisted # {}
            /\ persisted' = persisted /\ env' = env /\ row' = row
        => \A n \in Names \ env.fresh : env.contract => lists'[n] = lists[n]]_vars
  BY Zenon, NextRestores
<1> QED
  BY ModeInvariance, PlaceInvariance, <1>1, PTL DEF Spec, SwitchRestores
=============================================================================
