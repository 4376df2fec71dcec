-------------------------- MODULE MixedPlanProofs ---------------------------
(***************************************************************************)
(* Theorems about MixedPlan, for any number of documents, any citations    *)
(* the model writes and any outcome of the steps.                          *)
(***************************************************************************)
EXTENDS MixedPlan, Induction, SequenceTheorems

-----------------------------------------------------------------------------
(* What the reducer computes.                                              *)

\* Replacing one id after the other moves every known citation by the offset and
\* leaves the others alone, if no new id is an old one that is still to be replaced.
LEMMA RenumberingKeeps ==
    ASSUME NEW res \in Result, NEW offset \in Nat, offset = 0 \/ res.size <= offset
    PROVE  Rewritten(res, offset) =
              [c \in res.cited |-> IF c \in 1..res.size THEN offset + c ELSE c]
<1> DEFINE D == 1..res.size
           ids == [n \in D |-> n]
           base == [c \in res.cited |-> c]
           After(s) == [c \in res.cited |-> IF c \in s THEN offset + c ELSE c]
           Turn(f, s) == IF s = {} THEN base
                         ELSE Replace(f[s \ {Max(s)}], ids[Max(s)], offset + ids[Max(s)])
           Step(f) == [s \in SUBSET D |-> Turn(f, s)]
           Moved == [s \in SUBSET D |-> After(s)]
<1>1. res.cited \subseteq Nat /\ res.size \in Nat
  BY DEF Result
<1>2. IsFiniteSet(D)
  BY <1>1, FS_Interval
<1>3. ASSUME NEW s \in SUBSET D, s # {}
      PROVE  Max(s) \in s
  <2>1. s \in SUBSET Nat /\ \A n \in s : n <= res.size
    BY <1>1
  <2>2. \E m \in s : \A n \in s : n <= m
    BY <1>1, <1>3, <2>1, GreatestNatural
  <2>3. \E m \in s : \A n \in s : m >= n
    BY <2>1, <2>2
  <2> QED BY <2>3 DEF Max
<1>4. ASSUME NEW s \in SUBSET D, s # {}
      PROVE  After(s) = Replace(After(s \ {Max(s)}), ids[Max(s)], offset + ids[Max(s)])
  <2> DEFINE m == Max(s)
             r == s \ {m}
  <2>0. m \in s
    BY <1>3, <1>4
  <2> HIDE DEF m
  <2>1. m \in s /\ m \in D /\ ids[m] = m /\ m \in Nat /\ m >= 1 /\ m <= res.size
    BY <1>1, <2>0
  <2>2. ASSUME NEW c \in res.cited
        PROVE  After(s)[c] = IF After(r)[c] = m THEN offset + m ELSE After(r)[c]
    <3>1. c \in Nat
      BY <1>1
    <3>2. CASE c \in r
      <4>1. c \in s /\ c \in D /\ c # m
        BY <3>2
      <4>2. c >= 1
        BY <4>1
      <4>3. offset + c # m
        BY <1>1, <2>1, <3>1, <4>1, <4>2
      <4> QED BY <3>2, <4>1, <4>3
    <3>3. CASE c = m
      BY <2>1, <3>3
    <3>4. CASE c \notin r /\ c # m
      BY <3>4
    <3> QED BY <3>2, <3>3, <3>4
  <2>3. Replace(After(r), m, offset + m) =
           [c \in res.cited |-> IF After(r)[c] = m THEN offset + m ELSE After(r)[c]]
    BY DEF Replace
  <2>4. After(s) = Replace(After(r), m, offset + m)
    BY <2>2, <2>3
  <2> QED BY <2>1, <2>4 DEF m
<1>5. After({}) = base
  OBVIOUS
<1>6. Moved = Step(Moved)
  <2> HIDE DEF After, base, ids
  <2>1. ASSUME NEW s \in SUBSET D PROVE Moved[s] = Turn(Moved, s)
    BY <1>4, <1>5
  <2> QED BY <2>1
<1>7. ASSUME NEW f, f = Step(f)
      PROVE  f[D] = After(D)
  <2> DEFINE Wrong == {s \in SUBSET D : f[s] # After(s)}
  <2>1. \A s \in SUBSET D : f[s] = Turn(f, s)
    <3> HIDE DEF Turn
    <3> QED BY <1>7
  <2>2. ASSUME Wrong # {} PROVE FALSE
    <3>1. PICK s \in Wrong : \A r \in Wrong : r \subseteq s => r = s
      <4>1. Wrong \in SUBSET SUBSET D
        OBVIOUS
      <4> HIDE DEF Wrong, D
      <4> QED BY <1>2, <2>2, <4>1, SmallestSet
    <3>2. s \in SUBSET D /\ f[s] # After(s)
      BY <3>1
    <3>3. s # {}
      BY <1>5, <2>1, <3>2
    <3>4. s \ {Max(s)} \in SUBSET D /\ s \ {Max(s)} \notin Wrong
      BY <1>3, <3>1, <3>2, <3>3
    <3>5. f[s \ {Max(s)}] = After(s \ {Max(s)})
      BY <3>4
    <3>6. f[s] = Replace(f[s \ {Max(s)}], ids[Max(s)], offset + ids[Max(s)])
      BY <2>1, <3>2, <3>3
    <3> HIDE DEF After, ids
    <3> QED BY <1>4, <3>2, <3>3, <3>5, <3>6
  <2>3. D \in SUBSET D
    OBVIOUS
  <2> QED BY <2>2, <2>3
<1>8. Rewritten(res, offset) = (CHOOSE f : f = Step(f))[D]
  <2>1. DOMAIN ids = D
    OBVIOUS
  <2>2. Rewritten(res, offset) =
           FoldLeft(LAMBDA cites, n : Replace(cites, n, offset + n), base, ids)
    BY DEF Rewritten
  <2> HIDE DEF D, ids, base
  <2> QED BY <2>1, <2>2 DEF FoldLeft, MapThenFoldSet
<1> HIDE DEF Step, Moved, After
<1>9. (CHOOSE f : f = Step(f)) = Step(CHOOSE f : f = Step(f))
  BY <1>6
<1>10. Rewritten(res, offset) = After(D)
  BY <1>7, <1>8, <1>9
<1> QED BY <1>10 DEF After

\* The loop over a plan of two steps is two turns of it.
LEMMA TwoTurns ==
    ASSUME NEW start, NEW seq, DOMAIN seq = {1, 2}
    PROVE  FoldLeft(Merge, start, seq) = Merge(Merge(start, seq[1]), seq[2])
<1> DEFINE D == {1, 2}
           One == Merge(start, seq[1])
           Other == Merge(start, seq[2])
           Both == Merge(One, seq[2])
           Turn(f, s) == IF s = {} THEN start ELSE Merge(f[s \ {Max(s)}], seq[Max(s)])
           Step(f) == [s \in SUBSET D |-> Turn(f, s)]
           Turns == [s \in SUBSET D |-> IF s = {} THEN start ELSE IF s = {1} THEN One
                                        ELSE IF s = {2} THEN Other ELSE Both]
<1>1. Max({1}) = 1 /\ Max({2}) = 2 /\ Max({1, 2}) = 2
  BY DEF Max
<1>2. SUBSET D = {{}, {1}, {2}, D}
  OBVIOUS
<1>3. /\ {1} \ {1} = {} /\ {2} \ {2} = {} /\ {1, 2} \ {2} = {1}
      /\ {1} # {2} /\ {1} # D /\ {2} # D
  OBVIOUS
<1>4. /\ Turns[{}] = start /\ Turns[{1}] = One
      /\ Turns[{2}] = Other /\ Turns[{1, 2}] = Both
  BY <1>3
<1>5. Turns = Step(Turns)
  <2> HIDE DEF Turns
  <2> SUFFICES ASSUME NEW s \in SUBSET D PROVE Turns[s] = Turn(Turns, s)
    BY Zenon DEF Turns
  <2>1. CASE s = {}
    BY <1>4, <2>1
  <2>2. CASE s = {1}
    BY <1>1, <1>3, <1>4, <2>2
  <2>3. CASE s = {2}
    BY <1>1, <1>3, <1>4, <2>3
  <2>4. CASE s = D
    BY <1>1, <1>3, <1>4, <2>4
  <2> QED BY <1>2, <2>1, <2>2, <2>3, <2>4
<1>6. ASSUME NEW f, f = Step(f) PROVE f[D] = Both
  <2>1. \A s \in SUBSET D : f[s] = Turn(f, s)
    BY <1>6, Zenon
  <2>2. f[{}] = start
    BY <2>1
  <2>3. {1} \in SUBSET D /\ D \in SUBSET D /\ D # {}
    OBVIOUS
  <2>4. f[{1}] = Merge(f[{1} \ {1}], seq[1])
    BY <1>1, <2>1, <2>3
  <2>5. f[{1}] = One
    BY <1>3, <2>2, <2>4, Zenon
  <2>6. f[D] = Merge(f[D \ {2}], seq[2])
    BY <1>1, <2>1, <2>3
  <2> QED BY <1>3, <2>5, <2>6, Zenon
<1>7. FoldLeft(Merge, start, seq) = (CHOOSE f : f = Step(f))[D]
  BY DEF FoldLeft, MapThenFoldSet
<1> HIDE DEF Step, Turns, Both
<1> QED BY <1>5, <1>6, <1>7 DEF Both

-----------------------------------------------------------------------------
(* The merged outcome.                                                     *)

\* A plan runs the knowledge skill and one that renders its evidence.
Approved(p) == \E skill \in {"data", "inventory_risk"} :
    p = <<PlanStep("knowledge"), PlanStep(skill)>>

\* How a step of plan p has ended, or is running.
Ends(p, r) ==
    /\ DOMAIN r = DOMAIN p
    /\ \A i \in DOMAIN p : r[i] \in StepOutcomes[p[i].skill] \cup {Running}

BothAnswered(r) == r[1].end = "answered" /\ r[2].end = "answered"

SectionOf(i, res, offset) ==
    [step |-> i, cites |-> Rewritten(res, offset), open |-> res.open]

\* m is the outcome of plan p when its steps end in r.
IsMerged(m, p, r) ==
    IF BothAnswered(r)
    THEN /\ m.status = "answered"
         /\ m.plan = p
         /\ m.items = ItemsOf(1, r[1]) \o ItemsOf(2, r[2])
         /\ m.sections = <<SectionOf(1, r[1], 0), SectionOf(2, r[2], r[1].size)>>
    ELSE /\ m.status = "clarify"
         /\ m.sections = <<>>
         /\ m.items \in {<<>>, ItemsOf(1, r[1]), ItemsOf(2, r[2])}

LEMMA PlansApproved ==
    ASSUME NEW named \in SUBSET Topics, PlanFor(named) # NoPlan
    PROVE  Approved(PlanFor(named))
BY DEF PlanFor, Topics, Plans, Approved

LEMMA EndsTyped ==
    ASSUME NEW p, Approved(p), NEW r, Ends(p, r)
    PROVE  /\ DOMAIN p = {1, 2} /\ Len(p) = 2
           /\ p[1].required /\ p[2].required
           /\ p[1].skill = "knowledge" /\ p[2].skill \in {"data", "inventory_risk"}
           /\ r[1] \in Result \cup {Running} /\ r[2] \in Result \cup {Running}
           /\ r[1].size \in Nat /\ r[2].size \in Nat
           /\ r[1].end = "answered" => r[1] \in Result /\ r[1].size >= 1
           /\ r[2].end = "answered" => r[2] \in Result /\ r[2].size = 1 /\ r[2].cited = {1}
           /\ r[2].end = "answered" => ~r[2].open
<1>1. PICK skill \in {"data", "inventory_risk"} : p = <<PlanStep("knowledge"), PlanStep(skill)>>
  BY DEF Approved
<1>2. /\ DOMAIN p = {1, 2} /\ Len(p) = 2 /\ p[1].required /\ p[2].required
      /\ p[1].skill = "knowledge" /\ p[2].skill = skill
  BY <1>1 DEF PlanStep
<1>3. /\ r[1] \in StepOutcomes["knowledge"] \cup {Running}
      /\ r[2] \in StepOutcomes[skill] \cup {Running}
  BY <1>2 DEF Ends
<1>4. {"knowledge", "data", "inventory_risk"} \subseteq SkillRoutes
  BY DEF SkillRoutes
<1>5. r[1] \in Result \cup {Running} /\ r[2] \in Result \cup {Running}
  BY <1>3, <1>4, StepOutcomesAssumption
<1>6. Running.end # "answered" /\ Running.size = 0
  BY DEF Running
<1>7. r[1].size \in Nat /\ r[2].size \in Nat
  BY <1>5, <1>6 DEF Result
<1>8. r[1].end = "answered" => r[1] \in Result /\ r[1].size >= 1
  BY <1>3, <1>4, <1>5, <1>6, EvidenceAssumption
<1>9. r[2].end = "answered" =>
         r[2] \in Result /\ r[2].size = 1 /\ r[2].cited = {1} /\ ~r[2].open
  BY <1>3, <1>4, <1>5, <1>6, EvidenceAssumption
<1> QED BY <1>2, <1>5, <1>7, <1>8, <1>9

LEMMA ItemsTyped ==
    ASSUME NEW i \in {1, 2}, NEW res, res.size \in Nat
    PROVE  /\ ItemsOf(i, res) \in Seq([step : {1, 2}, id : Nat])
           /\ Len(ItemsOf(i, res)) = res.size
<1> DEFINE T == [step : {1, 2}, id : Nat]
<1>1. ItemsOf(i, res) \in [1..res.size -> T]
  BY DEF ItemsOf
<1> HIDE DEF T
<1>2. ItemsOf(i, res) \in Seq(T)
  <2>1. \E n \in Nat : ItemsOf(i, res) \in [1..n -> T]
    BY <1>1
  <2> QED BY <2>1, SeqDef, Zenon
<1>3. 1..Len(ItemsOf(i, res)) = 1..res.size /\ Len(ItemsOf(i, res)) \in Nat
  <2>1. DOMAIN ItemsOf(i, res) = 1..res.size
    BY <1>1
  <2>2. /\ DOMAIN ItemsOf(i, res) = 1..Len(ItemsOf(i, res))
        /\ Len(ItemsOf(i, res)) \in Nat
    BY <1>2, LenProperties
  <2> QED BY <2>1, <2>2
<1> QED BY <1>2, <1>3 DEF T

\* k items of the first step and l of the second one.
Joined(items, k, l) ==
    /\ DOMAIN items = 1..k + l
    /\ \A n \in 1..k : items[n] = [step |-> 1, id |-> n]
    /\ \A n \in 1..l : items[k + n] = [step |-> 2, id |-> n]

LEMMA ItemsJoined ==
    ASSUME NEW a, NEW b, a.size \in Nat, b.size \in Nat
    PROVE  Joined(ItemsOf(1, a) \o ItemsOf(2, b), a.size, b.size)
<1> DEFINE I1 == ItemsOf(1, a)
           I2 == ItemsOf(2, b)
           T == [step : {1, 2}, id : Nat]
<1>1. I1 \in Seq(T) /\ Len(I1) = a.size /\ I2 \in Seq(T) /\ Len(I2) = b.size
  BY ItemsTyped
<1>2. /\ \A n \in 1..a.size : I1[n] = [step |-> 1, id |-> n]
      /\ \A n \in 1..b.size : I2[n] = [step |-> 2, id |-> n]
  BY DEF ItemsOf
<1> HIDE DEF I1, I2, T
<1>3. /\ I1 \o I2 \in Seq(T) /\ Len(I1 \o I2) = Len(I1) + Len(I2)
      /\ \A n \in 1..Len(I1) + Len(I2) :
            (I1 \o I2)[n] = IF n <= Len(I1) THEN I1[n] ELSE I2[n - Len(I1)]
  BY <1>1, ConcatProperties, Zenon
<1>4. DOMAIN (I1 \o I2) = 1..a.size + b.size
  BY <1>1, <1>3, LenProperties
<1>5. \A n \in 1..a.size : (I1 \o I2)[n] = I1[n]
  BY <1>1, <1>3
<1>6. ASSUME NEW n \in 1..b.size PROVE (I1 \o I2)[a.size + n] = I2[n]
  <2>1. /\ a.size + n \in 1..a.size + b.size
        /\ ~ (a.size + n <= a.size) /\ (a.size + n) - a.size = n
    OBVIOUS
  <2>2. (I1 \o I2)[a.size + n] = I2[(a.size + n) - a.size]
    BY <1>1, <1>3, <2>1
  <2> QED BY <2>1, <2>2
<1> QED BY <1>2, <1>4, <1>5, <1>6 DEF I1, I2, Joined

LEMMA AppendTwice ==
    ASSUME NEW x, NEW y
    PROVE  /\ Append(<<>>, x) = <<x>>
           /\ Append(<<x>>, y) = <<x, y>>
           /\ <<x, y>> # <<>>
<1>1. <<>> \in Seq({x, y}) /\ <<x>> \in Seq({x, y})
  OBVIOUS
<1>2. /\ Append(<<>>, x) \in Seq({x, y}) /\ Len(Append(<<>>, x)) = 1
      /\ Append(<<>>, x)[1] = x
  BY <1>1, AppendProperties, EmptySeq
<1>3. Append(<<>>, x) = <<x>>
  BY <1>1, <1>2, SeqEqual
<1>4. /\ Append(<<x>>, y) \in Seq({x, y}) /\ Len(Append(<<x>>, y)) = 2
      /\ Append(<<x>>, y)[1] = x /\ Append(<<x>>, y)[2] = y
  BY <1>1, AppendProperties
<1>5. <<x, y>> \in Seq({x, y}) /\ Len(<<x, y>>) = 2
  OBVIOUS
<1>6. Append(<<x>>, y) = <<x, y>>
  <2>1. \A i \in 1..2 : Append(<<x>>, y)[i] = <<x, y>>[i]
    BY <1>4
  <2> QED BY <1>4, <1>5, <2>1, SeqEqual
<1> QED BY <1>3, <1>6

LEMMA ReducedMerges ==
    ASSUME Approved(plan), Ends(plan, results)
    PROVE  IsMerged(Reduced, plan, results)
<1> DEFINE start == [NoPatch EXCEPT !.plan = plan]
           one == Merge(start, 1)
           both == Merge(one, 2)
           Fields == {"status", "error", "plan", "items", "sections", "failed"}
<1>1. /\ DOMAIN plan = {1, 2} /\ plan[1].required /\ plan[2].required
      /\ results[1].size \in Nat /\ results[2].size \in Nat
  BY EndsTyped
<1>2. DOMAIN PlanOrder = {1, 2} /\ PlanOrder[1] = 1 /\ PlanOrder[2] = 2
  BY <1>1 DEF PlanOrder
<1>3. FoldLeft(Merge, start, PlanOrder) = both
  BY <1>2, TwoTurns
<1>4. /\ DOMAIN start = Fields /\ start.status = "clarify" /\ start.plan = plan
      /\ start.items = <<>> /\ start.sections = <<>> /\ start.failed = FALSE
  BY DEF NoPatch
<1>5. /\ Len(ItemsOf(1, results[1])) = results[1].size
      /\ ItemsOf(1, results[1]) \in Seq([step : {1, 2}, id : Nat])
      /\ ItemsOf(2, results[2]) \in Seq([step : {1, 2}, id : Nat])
  BY <1>1, ItemsTyped
<1>8. /\ <<>> \o ItemsOf(1, results[1]) = ItemsOf(1, results[1])
      /\ <<>> \o ItemsOf(2, results[2]) = ItemsOf(2, results[2])
  BY <1>5
<1> HIDE DEF start
<1>6. CASE results[1].end = "answered"
  <2>1. one = [start EXCEPT
                 !.items = start.items \o ItemsOf(1, results[1]),
                 !.sections = Append(start.sections, Section(1, Len(start.items)))]
    BY <1>6 DEF Merge
  <2>2. /\ DOMAIN one = Fields /\ one.status = "clarify" /\ one.plan = plan
        /\ one.items = ItemsOf(1, results[1])
        /\ one.sections = <<SectionOf(1, results[1], 0)>>
        /\ one.failed = FALSE
    <3>1. Append(start.sections, Section(1, Len(start.items))) =
             <<SectionOf(1, results[1], 0)>>
      <4>1. Section(1, Len(start.items)) = SectionOf(1, results[1], 0)
        BY <1>4 DEF Section, SectionOf
      <4> QED BY <1>4, <4>1, AppendTwice
    <3>2. start.items \o ItemsOf(1, results[1]) = ItemsOf(1, results[1])
      BY <1>4, <1>8
    <3> QED BY <1>4, <2>1, <3>1, <3>2
  <2> HIDE DEF one
  <2>3. CASE results[2].end = "answered"
    <3>1. both = [one EXCEPT
                    !.items = one.items \o ItemsOf(2, results[2]),
                    !.sections = Append(one.sections, Section(2, Len(one.items)))]
      BY <2>3 DEF Merge
    <3>2. /\ DOMAIN both = Fields /\ both.plan = plan
          /\ both.items = ItemsOf(1, results[1]) \o ItemsOf(2, results[2])
          /\ both.sections = <<SectionOf(1, results[1], 0),
                               SectionOf(2, results[2], results[1].size)>>
          /\ both.failed = FALSE
      <4>1. Append(one.sections, Section(2, Len(one.items))) =
               <<SectionOf(1, results[1], 0), SectionOf(2, results[2], results[1].size)>>
        <5>1. Section(2, Len(one.items)) = SectionOf(2, results[2], results[1].size)
          BY <1>5, <2>2 DEF Section, SectionOf
        <5> QED BY <2>2, <5>1, AppendTwice
      <4> QED BY <2>2, <3>1, <4>1
    <3>3. both.sections # <<>>
      BY <3>2, AppendTwice
    <3> HIDE DEF both
    <3>4. Reduced = [both EXCEPT !.status = "answered"]
      BY <1>3, <3>2, <3>3 DEF Reduced, start
    <3> QED BY <1>6, <2>3, <3>2, <3>4 DEF IsMerged, BothAnswered
  <2>4. CASE results[2].end # "answered"
    <3>1. both = [one EXCEPT !.failed = TRUE]
      BY <1>1, <2>2, <2>4 DEF Merge
    <3>2. /\ DOMAIN both = Fields /\ both.status = "clarify"
          /\ both.items = ItemsOf(1, results[1]) /\ both.failed = TRUE
      BY <2>2, <3>1
    <3> HIDE DEF both
    <3>3. Reduced = [both EXCEPT !.error = "PLAN_STEP_FAILED", !.sections = <<>>]
      BY <1>3, <3>2 DEF Reduced, start
    <3> QED BY <2>4, <3>2, <3>3 DEF IsMerged, BothAnswered
  <2> QED BY <2>3, <2>4
<1>7. CASE results[1].end # "answered"
  <2>1. one = [start EXCEPT !.failed = TRUE]
    BY <1>1, <1>4, <1>7 DEF Merge
  <2>2. /\ DOMAIN one = Fields /\ one.status = "clarify" /\ one.items = <<>>
        /\ one.failed = TRUE
    BY <1>4, <2>1
  <2> HIDE DEF one
  <2>3. /\ DOMAIN both = Fields /\ both.status = "clarify" /\ both.failed = TRUE
        /\ both.items \in {<<>>, ItemsOf(2, results[2])}
    <3>1. CASE results[2].end = "answered"
      BY <1>8, <2>2, <3>1 DEF Merge
    <3>2. CASE results[2].end # "answered"
      BY <1>1, <2>2, <3>2 DEF Merge
    <3> QED BY <3>1, <3>2
  <2> HIDE DEF both
  <2>4. Reduced = [both EXCEPT !.error = "PLAN_STEP_FAILED", !.sections = <<>>]
    BY <1>3, <2>3 DEF Reduced, start
  <2> QED BY <1>7, <2>3, <2>4 DEF IsMerged, BothAnswered
<1> QED BY <1>6, <1>7

-----------------------------------------------------------------------------
(* The invariant.                                                          *)

\* What has been merged is the outcome of an approved plan all of whose steps have
\* ended, or says that there is no plan.
PlanInv ==
    /\ topics \in {Named(w) : w \in Queries}
    /\ phase \in {"plan", "run", "review", "done"}
    /\ plan = NoPlan \/ Approved(plan)
    /\ Ends(plan, results)
    /\ phase = "plan" => plan = NoPlan
    /\ phase = "run" => Approved(plan)
    /\ phase \in {"plan", "run"} => patch = NoPatch /\ verdict = NoReview
    /\ phase \in {"review", "done"} =>
          \/ plan = NoPlan /\ patch = [NoPatch EXCEPT !.error = "PLAN_NOT_FOUND"]
          \/ Approved(plan) /\ IsMerged(patch, plan, results)

LEMMA NamedTopics == \A w \in Queries : Named(w) \in SUBSET Topics
BY DEF Named, Topics

LEMMA PlanInvHolds == Spec => []PlanInv
<1>1. Init => PlanInv
  BY DEF Init, PlanInv, Ends, NoPlan
<1>2. PlanInv /\ [Next]_vars => PlanInv'
  <2> SUFFICES ASSUME PlanInv, [Next]_vars PROVE PlanInv'
    OBVIOUS
  <2>1. CASE RefuseUnplanned
    BY <2>1 DEF PlanInv, RefuseUnplanned, Ends
  <2>2. CASE StartSteps
    <3>1. Approved(plan') /\ DOMAIN results' = DOMAIN plan'
      BY <2>2, NamedTopics, PlansApproved DEF StartSteps, PlanInv
    <3>2. Ends(plan', results')
      BY <2>2, <3>1 DEF StartSteps, Ends
    <3> QED BY <2>2, <3>1, <3>2 DEF PlanInv, StartSteps
  <2>3. CASE Reduce
    <3>1. Approved(plan) /\ Ends(plan, results)
      BY <2>3 DEF PlanInv, Reduce
    <3>2. IsMerged(patch', plan', results')
      BY <2>3, <3>1, ReducedMerges DEF Reduce
    <3> QED BY <2>3, <3>1, <3>2 DEF PlanInv, Reduce
  <2>4. CASE ReviewMixed
    BY <2>4 DEF PlanInv, ReviewMixed
  <2>5. ASSUME NEW i \in DOMAIN plan, EndStep(i) PROVE PlanInv'
    <3>1. Ends(plan, results')
      BY <2>5 DEF EndStep, Ends, PlanInv
    <3> QED BY <2>5, <3>1 DEF EndStep, PlanInv
  <2>6. CASE Done \/ UNCHANGED vars
    BY <2>6 DEF PlanInv, Done, vars
  <2> QED BY <2>1, <2>2, <2>3, <2>4, <2>5, <2>6 DEF Next
<1> QED BY <1>1, <1>2, PTL DEF Spec

-----------------------------------------------------------------------------
(* The properties.                                                         *)

LEMMA MergedSections ==
    ASSUME PlanInv, patch.sections # <<>>
    PROVE  Approved(plan) /\ IsMerged(patch, plan, results) /\ BothAnswered(results)
<1>1. NoPatch.sections = <<>> /\ [NoPatch EXCEPT !.error = "PLAN_NOT_FOUND"].sections = <<>>
  BY DEF NoPatch
<1> QED BY <1>1 DEF PlanInv, IsMerged

\* After renumbering, every citation of an item its own step knows still leads to
\* that item, however many documents the knowledge skill has found and whatever
\* tokens the model has written.
THEOREM AlwaysKnownCitationsKeep == Spec => []KnownCitationsKeep
<1>1. PlanInv => KnownCitationsKeep
  <2> SUFFICES ASSUME PlanInv, NEW s \in ToSet(patch.sections),
                      NEW c \in DOMAIN s.cites \cap 1..results[s.step].size
               PROVE  /\ s.cites[c] \in DOMAIN patch.items
                      /\ patch.items[s.cites[c]] = [step |-> s.step, id |-> c]
    BY DEF KnownCitationsKeep
  <2> DEFINE r1 == results[1]
             r2 == results[2]
  <2>1. Approved(plan) /\ IsMerged(patch, plan, results) /\ BothAnswered(results)
    BY MergedSections DEF ToSet
  <2>2. /\ r1 \in Result /\ r1.size \in Nat /\ r1.size >= 1
        /\ r2 \in Result /\ r2.size = 1
    BY <2>1, EndsTyped DEF PlanInv, BothAnswered
  <2>3. patch.items = ItemsOf(1, r1) \o ItemsOf(2, r2)
    BY <2>1 DEF IsMerged
  <2>4. r1.size \in Nat /\ r2.size \in Nat
    BY <2>2
  <2>5. /\ DOMAIN patch.items = 1..r1.size + 1
        /\ \A n \in 1..r1.size : patch.items[n] = [step |-> 1, id |-> n]
        /\ patch.items[r1.size + 1] = [step |-> 2, id |-> 1]
    <3>1. Joined(patch.items, r1.size, 1)
      BY <2>2, <2>3, <2>4, ItemsJoined
    <3> QED BY <3>1 DEF Joined
  <2>6. /\ Rewritten(r1, 0) = [k \in r1.cited |-> IF k \in 1..r1.size THEN 0 + k ELSE k]
        /\ Rewritten(r2, r1.size) =
              [k \in r2.cited |-> IF k \in 1..r2.size THEN r1.size + k ELSE k]
    BY <2>2, RenumberingKeeps
  <2>7. s \in {SectionOf(1, r1, 0), SectionOf(2, r2, r1.size)}
    BY <2>1 DEF IsMerged, ToSet
  <2>8. CASE s = SectionOf(1, r1, 0)
    <3>1. c \in r1.cited /\ c \in 1..r1.size
      BY <2>6, <2>8 DEF SectionOf
    <3>2. s.cites[c] = c
      BY <2>2, <2>6, <2>8, <3>1 DEF SectionOf
    <3>3. s.step = 1
      BY <2>8 DEF SectionOf
    <3> QED BY <2>2, <2>5, <3>1, <3>2, <3>3
  <2>9. CASE s = SectionOf(2, r2, r1.size)
    <3>1. c \in r2.cited /\ c = 1
      BY <2>2, <2>6, <2>9 DEF SectionOf
    <3>2. s.cites[c] = r1.size + 1
      BY <2>2, <2>6, <2>9, <3>1 DEF SectionOf
    <3>3. s.step = 2
      BY <2>9 DEF SectionOf
    <3> QED BY <2>2, <2>5, <3>1, <3>2, <3>3
  <2> QED BY <2>7, <2>8, <2>9
<1> QED BY <1>1, PlanInvHolds, PTL

\* The evidence and the sections of a mixed answer follow its plan, whichever step
\* ends first.
THEOREM AlwaysMergedInPlanOrder == Spec => []MergedInPlanOrder
<1>1. PlanInv => MergedInPlanOrder
  <2> SUFFICES ASSUME PlanInv PROVE MergedInPlanOrder
    OBVIOUS
  <2>1. CASE patch.sections = <<>> /\ patch.items = <<>>
    BY <2>1 DEF MergedInPlanOrder
  <2>2. CASE Approved(plan) /\ IsMerged(patch, plan, results)
    <3> DEFINE r1 == results[1]
               r2 == results[2]
    <3>1. r1.size \in Nat /\ r2.size \in Nat
      BY <2>2, EndsTyped DEF PlanInv
    <3>2. CASE BothAnswered(results)
      <4>1. patch.items = ItemsOf(1, r1) \o ItemsOf(2, r2)
        BY <2>2, <3>2 DEF IsMerged
      <4>2. /\ DOMAIN patch.items = 1..r1.size + r2.size
            /\ \A n \in 1..r1.size : patch.items[n] = [step |-> 1, id |-> n]
            /\ \A n \in 1..r2.size : patch.items[r1.size + n] = [step |-> 2, id |-> n]
        <5>1. Joined(patch.items, r1.size, r2.size)
          BY <3>1, <4>1, ItemsJoined
        <5> QED BY <5>1 DEF Joined
      <4>3. ASSUME NEW n \in DOMAIN patch.items
            PROVE  patch.items[n].step = IF n <= r1.size THEN 1 ELSE 2
        <5>1. CASE n <= r1.size
          <6>1. n \in 1..r1.size
            BY <3>1, <4>2, <5>1
          <6>2. patch.items[n] = [step |-> 1, id |-> n]
            BY <4>2, <6>1
          <6>3. patch.items[n].step = 1
            BY <6>2
          <6> QED BY <5>1, <6>3
        <5>2. CASE ~ (n <= r1.size)
          <6>1. n - r1.size \in 1..r2.size /\ r1.size + (n - r1.size) = n
            BY <3>1, <4>2, <5>2
          <6>2. patch.items[r1.size + (n - r1.size)] = [step |-> 2, id |-> n - r1.size]
            BY <4>2, <6>1
          <6> QED BY <5>2, <6>1, <6>2
        <5> QED BY <5>1, <5>2
      <4>4. ASSUME NEW m \in DOMAIN patch.items, NEW n \in DOMAIN patch.items, m < n
            PROVE  patch.items[m].step <= patch.items[n].step
        BY <3>1, <4>2, <4>3, <4>4
      <4>5. \A m, n \in DOMAIN patch.sections :
               m < n => patch.sections[m].step < patch.sections[n].step
        <5>1. /\ DOMAIN patch.sections = {1, 2}
              /\ patch.sections[1].step = 1 /\ patch.sections[2].step = 2
          BY <2>2, <3>2 DEF IsMerged, SectionOf
        <5> QED BY <5>1
      <4> QED BY <4>4, <4>5 DEF MergedInPlanOrder
    <3>3. CASE ~ BothAnswered(results)
      <4>1. patch.sections = <<>> /\ patch.items \in {<<>>, ItemsOf(1, r1), ItemsOf(2, r2)}
        BY <2>2, <3>3 DEF IsMerged
      <4>2. \E i \in {1, 2} : \A n \in DOMAIN patch.items : patch.items[n].step = i
        <5>1. /\ DOMAIN <<>> = {}
              /\ \A i \in {1, 2}, r \in {r1, r2} : \A n \in DOMAIN ItemsOf(i, r) :
                    ItemsOf(i, r)[n].step = i
          BY DEF ItemsOf
        <5>2. CASE patch.items = <<>>
          BY <5>2
        <5>3. CASE patch.items \in {ItemsOf(1, r1), ItemsOf(2, r2)}
          BY <5>1, <5>3
        <5> QED BY <4>1, <5>2, <5>3
      <4> QED BY <4>1, <4>2 DEF MergedInPlanOrder
    <3> QED BY <3>2, <3>3
  <2>3. NoPatch.sections = <<>> /\ NoPatch.items = <<>> /\ DOMAIN NoPatch =
           {"status", "error", "plan", "items", "sections", "failed"}
    BY DEF NoPatch
  <2> QED BY <2>1, <2>2, <2>3 DEF PlanInv
<1> QED BY <1>1, PlanInvHolds, PTL

\* A mixed answer is given only when every step of its plan has answered.
THEOREM AlwaysAnsweredMeansAllRequired == Spec => []AnsweredMeansAllRequired
<1>1. PlanInv => AnsweredMeansAllRequired
  <2>1. NoPatch.status = "clarify" /\ [NoPatch EXCEPT !.error = "PLAN_NOT_FOUND"].status = "clarify"
    BY DEF NoPatch
  <2> SUFFICES ASSUME PlanInv, patch.status = "answered", NEW i \in DOMAIN plan
               PROVE  results[i].end = "answered"
    BY DEF AnsweredMeansAllRequired
  <2>2. Approved(plan) /\ IsMerged(patch, plan, results)
    BY <2>1 DEF PlanInv
  <2>3. BothAnswered(results)
    BY <2>2 DEF IsMerged
  <2> QED BY <2>2, <2>3, EndsTyped DEF BothAnswered, PlanInv
<1> QED BY <1>1, PlanInvHolds, PTL

\* The text of the first step cites no merged evidence and leaves a bracket open, in
\* an answer.
Swallowed ==
    /\ patch.status = "answered"
    /\ results[1].open
    /\ results[1].cited \cap DOMAIN patch.items = {}

\* Incomplete evidence is never called an answer, and the citation of the second step
\* is known unless the first text swallows it.
LEMMA ReviewedMixed ==
    ASSUME PlanInv, phase \in {"review", "done"}
    PROVE  Review("mixed", Answer).retryable <=> Swallowed
<1>1. ASSUME NEW a
      PROVE  Review("mixed", a).retryable <=> ReviewCode("mixed", a) \in RetryableCodes
  BY DEF Review, ReviewResult
<1>2. Answer.status = patch.status
  BY DEF Answer
<1>3. CASE patch.status # "answered"
  BY <1>1, <1>2, <1>3 DEF ReviewCode, RetryableCodes, Swallowed
<1>4. CASE patch.status = "answered"
  <2> DEFINE r1 == results[1]
             r2 == results[2]
             last == r1.size + 1
  <2>1. Approved(plan) /\ IsMerged(patch, plan, results) /\ BothAnswered(results)
    <3>1. [NoPatch EXCEPT !.error = "PLAN_NOT_FOUND"].status = "clarify"
      BY DEF NoPatch
    <3> QED BY <1>4, <3>1 DEF PlanInv, IsMerged
  <2>2. /\ r1.size \in Nat /\ r1.size >= 1
        /\ r1 \in Result /\ r2 \in Result /\ r2.size = 1 /\ r2.cited = {1} /\ ~r2.open
        /\ plan[1].skill = "knowledge" /\ plan[2].skill \in {"data", "inventory_risk"}
    BY <2>1, EndsTyped DEF PlanInv, BothAnswered
  <2>3. Joined(patch.items, r1.size, 1)
    <3>1. patch.items = ItemsOf(1, r1) \o ItemsOf(2, r2)
      BY <2>1 DEF IsMerged
    <3>2. r1.size \in Nat /\ r2.size \in Nat
      BY <2>2
    <3> QED BY <2>2, <3>1, <3>2, ItemsJoined
  <2>4. /\ DOMAIN patch.items = 1..last /\ last \in Nat /\ last >= 1
        /\ patch.items[1].step = 1 /\ patch.items[last].step = 2
    <3>1. last \in Nat /\ last >= 1 /\ 1 \in 1..r1.size /\ 1 \in 1..1
      BY <2>2
    <3>2. /\ DOMAIN patch.items = 1..last
          /\ patch.items[1] = [step |-> 1, id |-> 1]
          /\ patch.items[last] = [step |-> 2, id |-> 1]
      BY <2>3, <3>1 DEF Joined
    <3> QED BY <3>1, <3>2
  <2>5. patch.plan = plan /\ plan # NoPlan
    <3>1. Len(plan) = 2
      BY <2>1, EndsTyped DEF PlanInv
    <3>2. plan # NoPlan
      BY <3>1 DEF NoPlan
    <3>3. patch.plan = plan
      BY <2>1 DEF IsMerged
    <3> QED BY <3>2, <3>3
  <2> DEFINE kinds == [n \in 1..last |-> KindOf(plan[patch.items[n].step].skill)]
  <2>6. Answer.kinds = kinds
    BY <2>4, <2>5 DEF Answer
  <2>7. kinds[1] = "document" /\ kinds[last] \in {"data", "risk"}
    <3>1. 1 \in 1..last /\ last \in 1..last
      BY <2>4
    <3>2. kinds[1] = KindOf(plan[1].skill) /\ kinds[last] = KindOf(plan[2].skill)
      BY <2>4, <3>1
    <3> HIDE DEF kinds
    <3> QED BY <2>2, <3>2 DEF KindOf
  <2>8. kinds # <<>> /\ Len(kinds) = last /\ DOMAIN kinds = 1..last
    <3> DEFINE K == {kinds[n] : n \in 1..last}
    <3>1. \E n \in Nat : kinds \in [1..n -> K]
      BY <2>4
    <3>2. kinds \in Seq(K)
      <4> HIDE DEF K, kinds
      <4> QED BY <3>1, SeqDef, Zenon
    <3>3. DOMAIN kinds = 1..last
      OBVIOUS
    <3> HIDE DEF K, kinds
    <3>4. DOMAIN kinds = 1..Len(kinds) /\ Len(kinds) \in Nat
      BY <3>2, LenProperties
    <3> QED BY <2>4, <3>3, <3>4
  <2>9. Tokens(1) = r1.cited
    <3>1. patch.sections[1] = SectionOf(1, r1, 0)
      BY <2>1 DEF IsMerged
    <3>2. Rewritten(r1, 0) = [k \in r1.cited |-> IF k \in 1..r1.size THEN 0 + k ELSE k]
      BY <2>2, RenumberingKeeps
    <3>3. \A k \in r1.cited : Rewritten(r1, 0)[k] = k
      BY <2>2, <3>2 DEF Result
    <3>4. DOMAIN Rewritten(r1, 0) = r1.cited
      BY <3>2
    <3>5. patch.sections[1].cites = Rewritten(r1, 0)
      BY <3>1 DEF SectionOf
    <3>6. Tokens(1) = {patch.sections[1].cites[c] : c \in DOMAIN patch.sections[1].cites}
      BY DEF Tokens
    <3>7. Tokens(1) = {Rewritten(r1, 0)[c] : c \in r1.cited}
      BY <3>4, <3>5, <3>6
    <3> QED BY <3>3, <3>7
  <2>13. Tokens(2) = IF r1.open THEN {0} ELSE {last}
    <3>1. /\ patch.sections[2] = SectionOf(2, r2, r1.size)
          /\ patch.sections[1] = SectionOf(1, r1, 0)
      BY <2>1 DEF IsMerged
    <3>2. Rewritten(r2, r1.size) =
             [k \in r2.cited |-> IF k \in 1..r2.size THEN r1.size + k ELSE k]
      BY <2>2, RenumberingKeeps
    <3>3. DOMAIN Rewritten(r2, r1.size) = {1} /\ Rewritten(r2, r1.size)[1] = last
      BY <2>2, <3>2
    <3>4. patch.sections[2].cites = Rewritten(r2, r1.size) /\ patch.sections[1].open = r1.open
      BY <3>1 DEF SectionOf
    <3>5. Tokens(2) = IF r1.open THEN {0}
                      ELSE {patch.sections[2].cites[c] : c \in DOMAIN patch.sections[2].cites}
      BY <3>4 DEF Tokens
    <3> QED BY <3>3, <3>4, <3>5
  <2>14. Answer.cited = r1.cited \cup Tokens(2)
    <3>1. DOMAIN patch.sections = {1, 2}
      BY <2>1 DEF IsMerged
    <3> QED BY <2>9, <3>1 DEF Answer
  <2>10. Answer.plan
    BY <2>5 DEF Answer
  <2>11. MixedCode(Answer) = "REVIEW_PASSED"
    <3> HIDE DEF kinds, last
    <3>1. 1 \in DOMAIN kinds /\ last \in DOMAIN kinds
      BY <2>4, <2>8
    <3> QED BY <2>6, <2>7, <2>10, <3>1 DEF MixedCode
  <2>15. Answer.kinds # <<>> /\ 1..Len(Answer.kinds) = DOMAIN patch.items
    BY <2>4, <2>6, <2>8
  <2>16. Answer.cited \cap DOMAIN patch.items = {} <=>
            r1.open /\ r1.cited \cap DOMAIN patch.items = {}
    <3>1. last \in DOMAIN patch.items /\ 0 \notin DOMAIN patch.items
      BY <2>4
    <3> HIDE DEF last
    <3> QED BY <2>13, <2>14, <3>1
  <2>17. Answer.cited \cap DOMAIN patch.items = {} <=> Swallowed
    BY <1>4, <2>16 DEF Swallowed
  <2>18. CASE Swallowed
    <3>1. ReviewCode("mixed", Answer) = "REVIEW_CITATION_MISSING"
      BY <1>2, <1>4, <2>15, <2>17, <2>18 DEF ReviewCode
    <3> QED BY <1>1, <2>18, <3>1 DEF RetryableCodes
  <2>19. CASE ~ Swallowed
    <3>1. ReviewCode("mixed", Answer) \in {"REVIEW_CITATION_UNKNOWN", "REVIEW_PASSED"}
      BY <1>2, <1>4, <2>11, <2>15, <2>17, <2>19 DEF ReviewCode
    <3> QED BY <1>1, <2>19, <3>1 DEF RetryableCodes
  <2> QED BY <2>18, <2>19
<1> QED BY <1>3, <1>4

\* A mixed plan is run a second time just when the text on the rules leaves a bracket
\* open, which swallows the citation of the other section, and cites nothing of the
\* merged evidence itself, whatever else the model has written.
THEOREM AlwaysRetriedWhenSwallowed == Spec => []RetriedWhenSwallowed
<1> DEFINE Stands == phase = "done" => verdict = Review("mixed", Answer)
<1>1. Init => Stands
  BY DEF Init
<1>2. PlanInv /\ Stands /\ [Next]_vars => Stands'
  <2> SUFFICES ASSUME PlanInv, Stands, [Next]_vars PROVE Stands'
    OBVIOUS
  <2>1. CASE ReviewMixed
    <3>1. Answer' = Answer
      BY <2>1 DEF ReviewMixed, Answer, Tokens
    <3> QED BY <2>1, <3>1 DEF ReviewMixed
  <2>2. CASE phase' # "done"
    BY <2>2
  <2>3. CASE UNCHANGED vars
    <3>1. Answer' = Answer
      BY <2>3 DEF vars, Answer, Tokens
    <3> QED BY <2>3, <3>1 DEF vars
  <2>4. CASE \E i \in DOMAIN plan : EndStep(i)
    BY <2>2, <2>4 DEF EndStep
  <2> QED BY <2>1, <2>2, <2>3, <2>4 DEF Next, RefuseUnplanned, StartSteps, Reduce, Done
<1>3. PlanInv /\ Stands => RetriedWhenSwallowed
  BY ReviewedMixed DEF RetriedWhenSwallowed, Swallowed
<1> QED BY <1>1, <1>2, <1>3, PlanInvHolds, PTL DEF Spec

\* Every query the rules call mixed has a plan unless it names no subject, a question of
\* risk gets the plan for risk unless a warning is its only term of risk, and no query
\* the rules leave to the model has a plan but that of goods in transit.
THEOREM AlwaysRulesMeetPlans == Spec => []RulesMeetPlans
<1>1. RulesMeetPlans
  <2> SUFFICES ASSUME NEW w \in Queries
               PROVE  /\ Rule(w).route = "mixed" =>
                            /\ PlanFor(Named(w)) = NoPlan => w \cap DataWords = {"figures"}
                            /\ AsksForRisk(w) =>
                                  \/ PlanFor(Named(w)) = Plans.risk
                                  \/ ~ Has(w, {"risk", "named_risk"})
                      /\ Rule(w) = NoDecision /\ PlanFor(Named(w)) # NoPlan =>
                            PlanFor(Named(w)) = Plans.stock /\ "transit" \in w
    BY DEF RulesMeetPlans
  <2>1. Named(w) \in SUBSET Topics
    BY NamedTopics
  <2>2. /\ Plans.risk # NoPlan /\ Plans.stock # NoPlan /\ Plans.sales # NoPlan
    BY DEF Plans, NoPlan
  <2>3. PlanFor(Named(w)) = NoPlan => Named(w) = {}
    BY <2>1, <2>2 DEF PlanFor, Topics
  <2>4. /\ "risk" \in Named(w) <=> "risk" \in w \/ "named_risk" \in w
        /\ "stock" \in Named(w) <=> "stock" \in w \/ "balance" \in w \/ "transit" \in w
        /\ "sales" \in Named(w) <=> "sales" \in w
    BY DEF Named, Has
  <2>5. Rule(w).route = "mixed" => Has(w, DataWords)
    BY DEF Rule, Decided, NoDecision
  <2>6. ASSUME Rule(w) = NoDecision
        PROVE  ~ Has(w, DataWords)
    BY <2>6 DEF Rule, Decided, NoDecision
  <2>7. Rule(w).route = "mixed" /\ PlanFor(Named(w)) = NoPlan => w \cap DataWords = {"figures"}
    BY <2>3, <2>4, <2>5 DEF Has, DataWords
  <2>8. Has(w, {"risk", "named_risk"}) => PlanFor(Named(w)) = Plans.risk
    BY <2>4 DEF Has, PlanFor
  <2>9. ASSUME Rule(w) = NoDecision, PlanFor(Named(w)) # NoPlan
        PROVE  PlanFor(Named(w)) = Plans.stock /\ "transit" \in w
    <3>1. /\ "risk" \notin w /\ "named_risk" \notin w /\ "stock" \notin w
          /\ "balance" \notin w /\ "sales" \notin w
      BY <2>6, <2>9 DEF Has, DataWords
    <3>2. "risk" \notin Named(w) /\ "sales" \notin Named(w)
      BY <2>4, <3>1
    <3>3. "stock" \in Named(w)
      BY <2>1, <2>9, <3>2 DEF PlanFor, Topics
    <3> QED BY <2>4, <3>1, <3>2, <3>3 DEF PlanFor
  <2> QED BY <2>7, <2>8, <2>9
<1> QED BY <1>1, PTL
=============================================================================
