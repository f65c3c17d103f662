---------------------------- MODULE PlansProofs ----------------------------
(* Proofs about Plans, for every set of hosts, operations, arguments, texts  *)
(* of diffs and other lines: what normalize and fingerprint keep of a fleet  *)
(* and of what pyinfra prints, and what the decisions that rest on them      *)
(* promise.                                                                 *)
EXTENDS Plans, FiniteSetTheorems, SequenceTheorems, WellFoundedInduction, TLAPS

-----------------------------------------------------------------------------
(* Positions.                                                              *)

\* A nonempty set of numbers has a least one.
LEMMA LeastNumber ==
    ASSUME NEW S, S \subseteq Nat, S # {}
    PROVE  \E m \in S : \A k \in S : m <= k
<1>1. \E m \in S : \A k \in S : <<k, m>> \notin OpToRel(<, Nat)
  BY NatLessThanWellFounded, WFMin
<1>2. \A k, m \in S : <<k, m>> \notin OpToRel(<, Nat) => m <= k
  BY DEF OpToRel
<1> QED
  BY <1>1, <1>2

\* The hosts are finitely many, each at a place of its own.
LEMMA Hosts ==
    /\ Len(Names) \in Nat
    /\ DOMAIN Names = 1..Len(Names)
    /\ \A i \in DOMAIN Names : Names[i] \in Host
    /\ \A h \in Host : \E i \in DOMAIN Names : Names[i] = h
    /\ IsFiniteSet(Host)
    /\ Cardinality(Host) \in Nat
<1>1. Len(Names) \in Nat /\ DOMAIN Names = 1..Len(Names)
  BY PlansAssumption, LenProperties
<1>2. /\ \A i \in DOMAIN Names : Names[i] \in Host
      /\ \A h \in Host : \E i \in DOMAIN Names : Names[i] = h
  BY DEF Host, Range
<1>3. Names \in Surjection(1..Len(Names), Host)
  BY <1>1, <1>2, PlansAssumption, LenProperties DEF Surjection
<1>4. IsFiniteSet(1..Len(Names))
  BY <1>1, FS_Interval
<1>5. IsFiniteSet(Host)
  BY <1>3, <1>4, FS_Surjection
<1> QED
  BY <1>1, <1>2, <1>5, FS_CardinalityType

\* An order lists every element at exactly one position.
LEMMA OrderProperties ==
    ASSUME NEW S, IsFiniteSet(S), NEW order \in Orders(S)
    PROVE  /\ Cardinality(S) \in Nat
           /\ DOMAIN order = 1..Cardinality(S)
           /\ \A i \in DOMAIN order : order[i] \in S
           /\ \A x \in S : \E i \in DOMAIN order : order[i] = x
           /\ \A i, j \in DOMAIN order : order[i] = order[j] => i = j
<1>1. Cardinality(S) \in Nat
  BY FS_CardinalityType
<1>2. /\ order \in [1..Cardinality(S) -> S]
      /\ \A i, j \in DOMAIN order : order[i] = order[j] => i = j
  BY DEF Orders, IsInjective
<1>3. order \in Injection(1..Cardinality(S), S)
  BY <1>2 DEF Injection, IsInjective
<1>4. IsFiniteSet(1..Cardinality(S)) /\ Cardinality(1..Cardinality(S)) = Cardinality(S)
  BY <1>1, FS_Interval
<1>5. order \in Surjection(1..Cardinality(S), S)
  BY <1>3, <1>4, FS_Injection
<1>6. \A x \in S : \E i \in 1..Cardinality(S) : order[i] = x
  BY <1>5 DEF Surjection
<1> QED
  BY <1>1, <1>2, <1>6

\* Two lists of which one is listed by the positions of the other hold
\* everything equally often.
LEMMA EqualCounts ==
    ASSUME NEW S, NEW T, IsFiniteSet(S), NEW g, DOMAIN g = S,
           \A i \in S : g[i] \in T,
           \A x \in T : \E i \in S : g[i] = x,
           \A i, j \in S : g[i] = g[j] => i = j
    PROVE  IsFiniteSet(T) /\ Cardinality(T) = Cardinality(S)
<1> DEFINE b == [i \in S |-> g[i]]
<1>1. b \in Bijection(S, T)
  BY DEF Bijection, Injection, Surjection, IsInjective
<1> QED
  BY <1>1, FS_Bijection DEF ExistsBijection

\* A list of two lists has the elements of both, the first list's in front.
LEMMA ConcatRange ==
    ASSUME NEW S, NEW s \in Seq(S), NEW t \in Seq(S)
    PROVE  /\ s \o t \in Seq(S)
           /\ Range(s \o t) = Range(s) \cup Range(t)
           /\ 1 \in DOMAIN s => 1 \in DOMAIN (s \o t) /\ (s \o t)[1] = s[1]
<1>1. /\ Len(s) \in Nat /\ DOMAIN s = 1..Len(s)
      /\ Len(t) \in Nat /\ DOMAIN t = 1..Len(t)
  BY LenProperties
<1> DEFINE both == s \o t
<1>2. both \in Seq(S) /\ Len(both) = Len(s) + Len(t)
  BY ConcatProperties
<1>3. \A i \in 1..Len(s) + Len(t) : both[i] = IF i <= Len(s) THEN s[i] ELSE t[i - Len(s)]
  BY ConcatProperties
<1> HIDE DEF both
<1>4. DOMAIN both = 1..Len(s) + Len(t)
  BY <1>2, LenProperties
<1>5. \A i \in DOMAIN s : i \in DOMAIN both /\ both[i] = s[i]
  BY <1>1, <1>3, <1>4
<1>6. \A i \in DOMAIN t : i + Len(s) \in DOMAIN both /\ both[i + Len(s)] = t[i]
  BY <1>1, <1>3, <1>4
<1>7. \A i \in DOMAIN both : \/ i \in DOMAIN s /\ both[i] = s[i]
                             \/ i - Len(s) \in DOMAIN t /\ both[i] = t[i - Len(s)]
  BY <1>1, <1>3, <1>4
<1>8. \A x \in Range(s) \cup Range(t) : \E i \in DOMAIN both : both[i] = x
  BY <1>5, <1>6 DEF Range
<1>9. \A i \in DOMAIN both : both[i] \in Range(s) \cup Range(t)
  BY <1>7 DEF Range
<1>10. Range(both) = Range(s) \cup Range(t)
  <2>1. \A x : x \in Range(both) <=> \E i \in DOMAIN both : both[i] = x
    BY DEF Range
  <2> QED
    BY <1>8, <1>9, <2>1
<1> QED
  BY <1>2, <1>5, <1>10 DEF both

-----------------------------------------------------------------------------
(* What pyinfra reports.                                                   *)

Line == [text : Part \cup Log \cup Host, names : SUBSET Host]

\* A report on f with operations in the order ops.
ReportsOn(f, report, ops) ==
    /\ report.plan = Plan(f, ops)
    /\ report.stderr \in Seq(Line)
    /\ report.failed_hosts \in SUBSET Host
    /\ report.inventory \in {Host, {}}

\* The same of a check, which printed the lines in the order given.
ChecksOn(f, report, ops, logs, order) ==
    /\ ReportsOn(f, report, ops)
    /\ logs \in SUBSET Log
    /\ order \in Orders(Printed(f, Complaints(f), logs))
    /\ report.stderr = [k \in DOMAIN order |-> LineOf(f, order[k])]
    /\ report.failed_hosts \subseteq Broken(f)
    /\ report.results = <<>>

\* A host's diff has parts at positions from one on.
LEMMA PartsProperties ==
    ASSUME NEW f \in Fleet
    PROVE  /\ IsFiniteSet(Parts(f))
           /\ \A x \in Parts(f) :
                /\ x = <<x[1], x[2]>> /\ x[1] \in Examined(f)
                /\ \E op \in Op : f.need[x[1]][op] # "no"
                /\ x[2] \in Nat /\ x[2] > 0 /\ f.text[x[1]][x[2]] \in Part
<1>1. \A h \in Host : f.text[h] \in Seq(Part)
  <2>1. Text \cup {<<>>} \subseteq Seq(Part)
    BY PlansAssumption, EmptySeq
  <2>2. \A h \in Host : f.text[h] \in Text \cup {<<>>}
    BY DEF Fleet
  <2> QED
    BY <2>1, <2>2
<1>2. \A h \in Host : /\ Len(f.text[h]) \in Nat
                      /\ DOMAIN f.text[h] = 1..Len(f.text[h])
                      /\ \A k \in DOMAIN f.text[h] : f.text[h][k] \in Part
  BY <1>1, LenProperties
<1> DEFINE changing == {g \in Examined(f) : \E op \in Op : f.need[g][op] # "no"}
           diffs == {{h} \X DOMAIN f.text[h] : h \in changing}
<1>3. Parts(f) = UNION diffs
  BY DEF Parts
<1>4. changing \in SUBSET Host
  BY DEF Examined
<1>5. IsFiniteSet(changing)
  BY <1>4, Hosts, FS_Subset
<1>6. \A h \in changing : IsFiniteSet({h} \X DOMAIN f.text[h])
  <2> TAKE h \in changing
  <2>1. IsFiniteSet({h})
    BY FS_Singleton
  <2>2. Len(f.text[h]) \in Nat /\ DOMAIN f.text[h] = 1..Len(f.text[h])
    BY <1>2, <1>4
  <2>3. IsFiniteSet(DOMAIN f.text[h])
    BY <2>2, FS_Interval
  <2> QED
    BY <2>1, <2>3, FS_Product
<1> HIDE DEF changing
<1>7. IsFiniteSet(diffs)
  <2> DEFINE s == [h \in changing |-> {h} \X DOMAIN f.text[h]]
  <2>1. s \in Surjection(changing, diffs)
    BY DEF Surjection
  <2> QED
    BY <1>5, <2>1, FS_Surjection
<1>8. IsFiniteSet(Parts(f))
  <2>1. \A T \in diffs : IsFiniteSet(T)
    BY <1>6
  <2> HIDE DEF diffs
  <2> QED
    BY <1>3, <1>7, <2>1, FS_UNION
<1>9. ASSUME NEW x \in Parts(f)
      PROVE  /\ x = <<x[1], x[2]>> /\ x[1] \in Examined(f)
             /\ \E op \in Op : f.need[x[1]][op] # "no"
             /\ x[2] \in Nat /\ x[2] > 0 /\ f.text[x[1]][x[2]] \in Part
  <2>1. PICK h \in changing : x \in {h} \X DOMAIN f.text[h]
    BY <1>3
  <2>2. x = <<x[1], x[2]>> /\ x[1] = h /\ x[2] \in DOMAIN f.text[h]
    BY <2>1
  <2>3. h \in Host /\ h \in Examined(f) /\ \E op \in Op : f.need[h][op] # "no"
    BY <1>4 DEF changing
  <2> QED
    BY <1>2, <2>2, <2>3
<1> QED
  BY <1>8, <1>9

LEMMA PrintedIsFinite ==
    ASSUME NEW f \in Fleet, NEW errors \in SUBSET Host, NEW logs \in SUBSET Log
    PROVE  IsFiniteSet(Printed(f, errors, logs))
<1>1. IsFiniteSet(Parts(f))
  BY PartsProperties
<1>2. IsFiniteSet(errors) /\ IsFiniteSet(logs)
  BY Hosts, PlansAssumption, FS_Subset
<1>3. IsFiniteSet({0})
  BY FS_Singleton
<1>4. IsFiniteSet(errors \X {0}) /\ IsFiniteSet(logs \X {0})
  BY <1>2, <1>3, FS_Product
<1>5. IsFiniteSet(Parts(f) \cup (errors \X {0}))
  BY <1>1, <1>4, FS_Union
<1> QED
  BY <1>4, <1>5, FS_Union DEF Printed

\* What the lines of a check are: parts of diffs, complaints and others.
LEMMA LineForm ==
    ASSUME NEW f \in Fleet, NEW errors \in SUBSET Host, NEW logs \in SUBSET Log,
           NEW x \in Printed(f, errors, logs)
    PROVE  \/ /\ x \in Parts(f)
              /\ LineOf(f, x) = DiffLine(x[1], f.text[x[1]][x[2]])
              /\ LineOf(f, x) \in Line /\ LineOf(f, x).text \in Part
           \/ /\ x \in errors \X {0} /\ x[1] \in errors
              /\ LineOf(f, x) = ErrorLine(x[1])
              /\ LineOf(f, x) \in Line /\ LineOf(f, x).text = x[1]
           \/ /\ x \in logs \X {0}
              /\ LineOf(f, x) \in Line /\ LineOf(f, x).text \in Log
<1>1. /\ Within \in [Host -> SUBSET Host] /\ LogNames \in [Log -> SUBSET Host]
      /\ Log \cap Host = {}
  BY PlansAssumption
<1>2. CASE x \in Parts(f)
  <2>1. x[1] \in Host /\ x[2] > 0 /\ f.text[x[1]][x[2]] \in Part
    BY <1>2, PartsProperties DEF Examined
  <2>2. LineOf(f, x) = DiffLine(x[1], f.text[x[1]][x[2]])
    BY <2>1 DEF LineOf
  <2>3. DiffLine(x[1], f.text[x[1]][x[2]]) \in Line
    BY <1>1, <2>1 DEF DiffLine, Line
  <2>4. DiffLine(x[1], f.text[x[1]][x[2]]).text = f.text[x[1]][x[2]]
    BY DEF DiffLine
  <2> QED
    BY <1>2, <2>1, <2>2, <2>3, <2>4
<1>3. CASE x \in errors \X {0}
  <2>1. x[1] \in errors /\ x[2] = 0 /\ x[1] \in Host /\ x[1] \notin Log
    BY <1>1, <1>3
  <2>2. LineOf(f, x) = ErrorLine(x[1])
    BY <2>1 DEF LineOf
  <2>3. ErrorLine(x[1]) \in Line /\ ErrorLine(x[1]).text = x[1]
    BY <1>1, <2>1 DEF ErrorLine, Line
  <2> QED
    BY <1>3, <2>1, <2>2, <2>3
<1>4. CASE x \in logs \X {0}
  <2>1. x[1] \in Log /\ x[2] = 0
    BY <1>4
  <2>2. LineOf(f, x) = LogLine(x[1])
    BY <2>1 DEF LineOf
  <2>3. LogLine(x[1]) \in Line /\ LogLine(x[1]).text = x[1]
    BY <1>1, <2>1 DEF LogLine, Line
  <2> QED
    BY <1>4, <2>1, <2>2, <2>3
<1> QED
  BY <1>2, <1>3, <1>4 DEF Printed

LEMMA CheckReportForm ==
    ASSUME NEW f \in Fleet, NEW report \in CheckReports(f), report # NoReport
    PROVE  \E ops \in Orders(Op) : \E logs, order : ChecksOn(f, report, ops, logs, order)
<1> DEFINE plans == {Plan(f, ops) : ops \in Orders(Op)}
           stderrs == UNION {Stderrs(f, Complaints(f), logs) : logs \in SUBSET Log}
<1>1. \E plan \in plans, stderr \in stderrs,
         failed \in {{}, Broken(f)}, hosts \in {Host, {}}, code \in {0, 1} :
            report = Report(plan, <<>>, failed, stderr, hosts, code)
  <2>1. CheckReports(f) = {NoReport} \cup
            {Report(plan, <<>>, failed, stderr, hosts, code) :
                plan \in plans, stderr \in stderrs, failed \in {{}, Broken(f)},
                hosts \in {Host, {}}, code \in {0, 1}}
    BY DEF CheckReports
  <2> HIDE DEF plans, stderrs
  <2> QED
    BY <2>1
<1>a. PICK ops \in Orders(Op), logs \in SUBSET Log, failed \in {{}, Broken(f)},
           hosts \in {Host, {}}, code \in {0, 1} :
        \E stderr \in Stderrs(f, Complaints(f), logs) :
            report = Report(Plan(f, ops), <<>>, failed, stderr, hosts, code)
  BY <1>1
<1>b. PICK stderr \in Stderrs(f, Complaints(f), logs) :
        report = Report(Plan(f, ops), <<>>, failed, stderr, hosts, code)
  BY <1>a
<1>2. PICK order \in Orders(Printed(f, Complaints(f), logs)) :
        stderr = [k \in DOMAIN order |-> LineOf(f, order[k])]
  BY DEF Stderrs, Outputs
<1>3. Broken(f) \subseteq Host /\ Complaints(f) \subseteq Host
  BY DEF Broken, Complaints
<1>4. IsFiniteSet(Printed(f, Complaints(f), logs))
  BY <1>3, PrintedIsFinite
<1>5. /\ Cardinality(Printed(f, Complaints(f), logs)) \in Nat
      /\ DOMAIN order = 1..Cardinality(Printed(f, Complaints(f), logs))
      /\ \A k \in DOMAIN order : order[k] \in Printed(f, Complaints(f), logs)
  BY <1>4, OrderProperties
<1>6. \A k \in DOMAIN order : LineOf(f, order[k]) \in Line
  BY <1>3, <1>5, LineForm
<1>7. stderr \in Seq(Line)
  BY <1>2, <1>5, <1>6, SeqDef
<1>8. /\ report.plan = Plan(f, ops) /\ report.results = <<>> /\ report.failed_hosts = failed
      /\ report.stderr = stderr /\ report.inventory = hosts
  BY <1>b DEF Report
<1>9. ReportsOn(f, report, ops)
  BY <1>3, <1>7, <1>8 DEF ReportsOn
<1>10. ChecksOn(f, report, ops, logs, order)
  BY <1>2, <1>8, <1>9 DEF ChecksOn
<1> QED
  BY <1>10

\* In a check, the unreachable hosts are those that pyinfra complained about.
LEMMA CheckUnreachable ==
    ASSUME NEW f \in Fleet, NEW report, NEW ops, NEW logs, NEW order,
           ChecksOn(f, report, ops, logs, order)
    PROVE  Unreachable(report) = Complaints(f)
<1>1. /\ logs \in SUBSET Log /\ order \in Orders(Printed(f, Complaints(f), logs))
      /\ report.stderr = [k \in DOMAIN order |-> LineOf(f, order[k])]
  BY DEF ChecksOn
<1>2. Complaints(f) \in SUBSET Host
  BY DEF Complaints
<1>3. /\ \A k \in DOMAIN order : order[k] \in Printed(f, Complaints(f), logs)
      /\ \A x \in Printed(f, Complaints(f), logs) : \E k \in DOMAIN order : order[k] = x
  BY <1>1, <1>2, PrintedIsFinite, OrderProperties
<1>4. Part \cap Host = {} /\ Log \cap Host = {}
  BY PlansAssumption
<1>5. \A h : h \in Unreachable(report) <=>
        h \in Host /\ \E k \in DOMAIN order : LineOf(f, order[k]).text = h
  BY <1>1 DEF Unreachable, Range
<1>6. ASSUME NEW k \in DOMAIN order, LineOf(f, order[k]).text \in Host
      PROVE  LineOf(f, order[k]).text \in Complaints(f)
  BY <1>1, <1>2, <1>3, <1>4, <1>6, LineForm
<1>7. ASSUME NEW h \in Complaints(f)
      PROVE  h \in Host /\ \E k \in DOMAIN order : LineOf(f, order[k]).text = h
  <2>1. h \in Host /\ h \notin Log
    BY <1>2, <1>4
  <2>2. <<h, 0>> \in Printed(f, Complaints(f), logs)
    BY DEF Printed
  <2>3. PICK k \in DOMAIN order : order[k] = <<h, 0>>
    BY <1>3, <2>2
  <2>4. LineOf(f, <<h, 0>>) = ErrorLine(h)
    BY <2>1 DEF LineOf
  <2>5. ErrorLine(h).text = h
    BY DEF ErrorLine
  <2> QED
    BY <2>1, <2>3, <2>4, <2>5
<1> QED
  BY <1>5, <1>6, <1>7

LEMMA EntryProperties ==
    ASSUME NEW f \in Fleet, NEW op \in Op
    PROVE  /\ Examined(f) \subseteq Host
           /\ Mentioned(Entry(f, op)) \subseteq Examined(f)
           /\ \A h \in Examined(f) :
                f.need[h][op] # "no" =>
                    h \in Entry(f, op).hosts_with_change
                            \cup Entry(f, op).hosts_with_conditional_change
           /\ \A h \in Examined(f) : f.need[h][op] # "no" => h \in Mentioned(Entry(f, op))
<1>1. Examined(f) \subseteq Host
  BY DEF Examined
<1>2. \A h \in Host : f.need[h][op] \in Need
  BY DEF Fleet
<1> QED
  BY <1>1, <1>2 DEF Entry, Mentioned, Need

LEMMA PlanProperties ==
    ASSUME NEW f \in Fleet, NEW ops \in Orders(Op)
    PROVE  /\ DOMAIN Plan(f, ops) = DOMAIN ops
           /\ \A i \in DOMAIN ops : ops[i] \in Op /\ Plan(f, ops)[i] = Entry(f, ops[i])
           /\ \A op \in Op : \E i \in DOMAIN ops : ops[i] = op
BY PlansAssumption, OrderProperties DEF Plan

-----------------------------------------------------------------------------
(* The dict of hosts.                                                      *)

LEMMA GroupsForm ==
    ASSUME NEW f \in Fleet, NEW ops \in Orders(Op), NEW report, ReportsOn(f, report, ops)
    PROVE  /\ Groups(report) \in Seq(SUBSET Host)
           /\ 1 \in DOMAIN Groups(report) /\ Groups(report)[1] = report.inventory
           /\ \A g : g \in Range(Groups(report)) <=>
                \/ g \in {report.inventory, report.failed_hosts}
                \/ \E i \in DOMAIN report.stderr : g = {report.stderr[i].text} \cap Host
                \/ \E op \in Op : g = Mentioned(Entry(f, op))
<1> DEFINE first == <<report.inventory>>
           errors == [i \in DOMAIN report.stderr |-> {report.stderr[i].text} \cap Host]
           mentions == [i \in DOMAIN report.plan |-> Mentioned(report.plan[i])]
           last == <<report.failed_hosts>>
<1>1. /\ DOMAIN report.plan = DOMAIN ops
      /\ \A i \in DOMAIN ops : ops[i] \in Op /\ report.plan[i] = Entry(f, ops[i])
      /\ \A op \in Op : \E i \in DOMAIN ops : ops[i] = op
  BY PlanProperties DEF ReportsOn
<1>2. first \in Seq(SUBSET Host) /\ last \in Seq(SUBSET Host)
  BY DEF ReportsOn
<1>3. mentions \in Seq(SUBSET Host)
  <2>1. Cardinality(Op) \in Nat /\ DOMAIN ops = 1..Cardinality(Op)
    BY PlansAssumption, OrderProperties
  <2>2. \A i \in DOMAIN ops : mentions[i] \in SUBSET Host
    BY <1>1, EntryProperties
  <2>3. DOMAIN mentions = 1..Cardinality(Op)
    BY <1>1, <2>1
  <2>4. mentions \in [1..Cardinality(Op) -> SUBSET Host]
    BY <1>1, <2>2, <2>3
  <2> HIDE DEF mentions
  <2> QED
    BY <2>1, <2>4, SeqDef
<1>4. errors \in Seq(SUBSET Host)
  <2>1. Len(report.stderr) \in Nat /\ DOMAIN report.stderr = 1..Len(report.stderr)
    BY LenProperties DEF ReportsOn
  <2>2. errors \in [1..Len(report.stderr) -> SUBSET Host]
    BY <2>1
  <2> HIDE DEF errors
  <2> QED
    BY <2>1, <2>2, SeqDef
<1>5. Groups(report) = ((first \o errors) \o mentions) \o last
  BY DEF Groups
<1>6. 1 \in DOMAIN first /\ first[1] = report.inventory
  OBVIOUS
<1>7. /\ \A g : g \in Range(first) <=> g = report.inventory
      /\ \A g : g \in Range(last) <=> g = report.failed_hosts
  BY DEF Range
<1>8. \A g : g \in Range(errors) <=>
        \E i \in DOMAIN report.stderr : g = {report.stderr[i].text} \cap Host
  BY DEF Range
<1>9. \A g : g \in Range(mentions) <=> \E op \in Op : g = Mentioned(Entry(f, op))
  <2>1. \A g : g \in Range(mentions) <=> \E i \in DOMAIN ops : g = Mentioned(report.plan[i])
    BY <1>1 DEF Range
  <2> QED
    BY <1>1, <2>1
<1> HIDE DEF first, errors, mentions, last
<1>10. /\ first \o errors \in Seq(SUBSET Host)
       /\ Range(first \o errors) = Range(first) \cup Range(errors)
       /\ 1 \in DOMAIN (first \o errors) /\ (first \o errors)[1] = report.inventory
  BY <1>2, <1>4, <1>6, ConcatRange
<1> DEFINE two == first \o errors
<1>a. two \in Seq(SUBSET Host) /\ 1 \in DOMAIN two /\ two[1] = report.inventory
  BY <1>10
<1> HIDE DEF two
<1>11. /\ two \o mentions \in Seq(SUBSET Host)
       /\ Range(two \o mentions) = Range(two) \cup Range(mentions)
       /\ 1 \in DOMAIN (two \o mentions) /\ (two \o mentions)[1] = report.inventory
  BY <1>3, <1>a, ConcatRange
<1> DEFINE three == two \o mentions
<1>b. three \in Seq(SUBSET Host) /\ 1 \in DOMAIN three /\ three[1] = report.inventory
  BY <1>11
<1> HIDE DEF three
<1>12. /\ three \o last \in Seq(SUBSET Host)
       /\ Range(three \o last) = Range(three) \cup Range(last)
       /\ 1 \in DOMAIN (three \o last) /\ (three \o last)[1] = report.inventory
  BY <1>2, <1>b, ConcatRange
<1>13. Groups(report) = three \o last
  BY <1>5 DEF two, three
<1>14. Range(Groups(report))
        = ((Range(first) \cup Range(errors)) \cup Range(mentions)) \cup Range(last)
  BY <1>10, <1>11, <1>12, <1>13 DEF two, three
<1>15. \A g : g \in Range(Groups(report)) <=>
        \/ g \in Range(first) \/ g \in Range(errors)
        \/ g \in Range(mentions) \/ g \in Range(last)
  BY <1>14
<1> QED
  BY <1>7, <1>8, <1>9, <1>12, <1>13, <1>15

\* The keys are hosts; every host that a report names is one.
LEMMA KeysProperties ==
    ASSUME NEW f \in Fleet, NEW ops \in Orders(Op), NEW report, ReportsOn(f, report, ops)
    PROVE  /\ Keys(report) \subseteq Host
           /\ report.inventory \subseteq Keys(report)
           /\ Unreachable(report) \subseteq Keys(report)
           /\ \A op \in Op : Mentioned(Entry(f, op)) \subseteq Keys(report)
<1>1. /\ Groups(report) \in Seq(SUBSET Host)
      /\ \A g : g \in Range(Groups(report)) <=>
            \/ g \in {report.inventory, report.failed_hosts}
            \/ \E i \in DOMAIN report.stderr : g = {report.stderr[i].text} \cap Host
            \/ \E op \in Op : g = Mentioned(Entry(f, op))
  BY GroupsForm
<1>2. \A g \in Range(Groups(report)) : g \subseteq Host
  BY <1>1, LenProperties DEF Range
<1>3. Keys(report) = UNION Range(Groups(report))
  BY DEF Keys
<1>4. \A g \in Range(Groups(report)) : g \subseteq Keys(report)
  BY <1>3
<1>5. Keys(report) \subseteq Host
  BY <1>2, <1>3
<1>6. ASSUME NEW h \in Unreachable(report)
      PROVE  h \in Keys(report)
  <2>1. PICK i \in DOMAIN report.stderr : h = report.stderr[i].text /\ h \in Host
    BY DEF Unreachable, Range
  <2>2. {report.stderr[i].text} \cap Host \in Range(Groups(report))
    BY <1>1
  <2> QED
    BY <1>4, <2>1, <2>2
<1> QED
  BY <1>1, <1>4, <1>5, <1>6

\* A dict that is not empty has a first host, one that sorts first of its group.
LEMMA FirstKeyProperties ==
    ASSUME NEW f \in Fleet, NEW ops \in Orders(Op), NEW report, ReportsOn(f, report, ops),
           Keys(report) # {}
    PROVE  /\ FirstKey(report) \in Keys(report)
           /\ report.inventory = Host => FirstKey(report) = Names[1]
<1> DEFINE groups == Groups(report)
           first == CHOOSE i \in DOMAIN groups :
                        groups[i] # {} /\ \A j \in 1..i-1 : groups[j] = {}
           place == CHOOSE k \in DOMAIN Names :
                        /\ Names[k] \in groups[first]
                        /\ \A l \in 1..k-1 : Names[l] \notin groups[first]
<1>1. /\ groups \in Seq(SUBSET Host)
      /\ Len(groups) \in Nat /\ DOMAIN groups = 1..Len(groups)
      /\ \A i \in DOMAIN groups : groups[i] \subseteq Host
      /\ 1 \in DOMAIN groups /\ groups[1] = report.inventory
  <2>1. groups \in Seq(SUBSET Host) /\ 1 \in DOMAIN groups /\ groups[1] = report.inventory
    BY GroupsForm
  <2> HIDE DEF groups
  <2> QED
    BY <2>1, LenProperties
<1>2. Keys(report) = UNION {groups[i] : i \in DOMAIN groups}
  BY DEF Keys, Range
<1>3. FirstKey(report) = Names[place]
  BY DEF FirstKey
<1> HIDE DEF groups, place
<1>4. \E i \in DOMAIN groups : groups[i] # {} /\ \A j \in 1..i-1 : groups[j] = {}
  <2> DEFINE S == {i \in DOMAIN groups : groups[i] # {}}
  <2>1. S \subseteq Nat /\ S # {}
    BY <1>1, <1>2
  <2>2. PICK i \in S : \A k \in S : i <= k
    BY <2>1, LeastNumber
  <2>3. \A j \in 1..i-1 : j \in DOMAIN groups /\ ~(i <= j)
    BY <1>1, <2>1, <2>2
  <2> QED
    BY <2>2, <2>3
<1>5. /\ first \in DOMAIN groups /\ groups[first] # {}
      /\ \A j \in 1..first-1 : groups[j] = {}
  BY <1>4
<1> HIDE DEF first
<1>6. groups[first] \subseteq Host
  BY <1>1, <1>5
<1>7. \E k \in DOMAIN Names : /\ Names[k] \in groups[first]
                              /\ \A l \in 1..k-1 : Names[l] \notin groups[first]
  <2> DEFINE S == {k \in DOMAIN Names : Names[k] \in groups[first]}
  <2>1. S \subseteq Nat /\ S # {}
    BY <1>5, <1>6, Hosts
  <2>2. PICK k \in S : \A l \in S : k <= l
    BY <2>1, LeastNumber
  <2>3. \A l \in 1..k-1 : l \in DOMAIN Names /\ ~(k <= l)
    BY <2>1, <2>2, Hosts
  <2> QED
    BY <2>2, <2>3
<1>8. /\ place \in DOMAIN Names /\ Names[place] \in groups[first]
      /\ \A l \in 1..place-1 : Names[l] \notin groups[first]
  BY <1>7 DEF place
<1>9. FirstKey(report) \in Keys(report)
  BY <1>2, <1>3, <1>5, <1>8
<1>10. ASSUME report.inventory = Host
       PROVE  FirstKey(report) = Names[1]
  <2>1. 1 \in DOMAIN Names
    BY <1>8, Hosts
  <2>2. groups[1] = Host /\ Host # {}
    BY <1>1, <1>10, <2>1, Hosts
  <2>3. first = 1
    BY <1>1, <1>5, <2>2
  <2>4. Names[1] \in groups[first]
    BY <2>1, <2>2, <2>3, Hosts
  <2>5. place = 1
    BY <1>8, <2>4, Hosts
  <2> QED
    BY <1>3, <2>5
<1> QED
  BY <1>9, <1>10

-----------------------------------------------------------------------------
(* The blocks of standard error.                                           *)

\* A block goes on to the line in front of the next start, and has no other
\* start in it.
LEMMA SliceProperties ==
    ASSUME NEW stderr \in Seq(Line), NEW i \in Starts(stderr)
    PROVE  /\ Slice(stderr, i) \in Seq(Line)
           /\ 1 \in DOMAIN Slice(stderr, i) /\ Slice(stderr, i)[1] = stderr[i]
           /\ \A k \in DOMAIN Slice(stderr, i) : k # 1 => Slice(stderr, i)[k].text \notin Part
<1>1. /\ Len(stderr) \in Nat /\ DOMAIN stderr = 1..Len(stderr)
      /\ \A k \in DOMAIN stderr : stderr[k] \in Line
  BY LenProperties
<1>2. i \in 1..Len(stderr) /\ Starts(stderr) \subseteq 1..Len(stderr)
  BY <1>1 DEF Starts
<1> DEFINE Last(j) == /\ (i+1)..j \cap Starts(stderr) = {}
                      /\ j = Len(stderr) \/ j + 1 \in Starts(stderr)
<1>3. \E j \in i..Len(stderr) : Last(j)
  <2> DEFINE later == {k \in Starts(stderr) : k > i}
  <2>1. CASE later = {}
    <3>1. Len(stderr) \in i..Len(stderr)
      BY <1>1, <1>2
    <3>2. (i+1)..Len(stderr) \cap Starts(stderr) = {}
      BY <1>1, <1>2, <2>1
    <3> QED
      BY <3>1, <3>2
  <2>2. CASE later # {}
    <3>1. later \subseteq Nat
      BY <1>2
    <3>2. PICK m \in later : \A k \in later : m <= k
      BY <2>2, <3>1, LeastNumber
    <3>3. m \in Starts(stderr) /\ m \in 1..Len(stderr) /\ m > i
      BY <1>2, <3>2
    <3>4. m - 1 \in i..Len(stderr) /\ m - 1 + 1 \in Starts(stderr)
      BY <1>1, <1>2, <3>3
    <3>5. \A k \in (i+1)..(m-1) : k \notin Starts(stderr)
      <4> TAKE k \in (i+1)..(m-1)
      <4>1. k > i /\ ~(m <= k)
        BY <1>2, <3>3
      <4> QED
        BY <3>2, <4>1
    <3> QED
      BY <3>4, <3>5
  <2> QED
    BY <2>1, <2>2
<1> DEFINE end == End(stderr, i)
<1>4. end \in i..Len(stderr) /\ Last(end)
  <2>1. end = CHOOSE j \in i..Len(stderr) : Last(j)
    BY DEF End
  <2> HIDE DEF end, Last
  <2> QED
    BY <1>3, <2>1
<1>5. (i+1)..end \cap Starts(stderr) = {}
  BY <1>4
<1>6. Slice(stderr, i) = SubSeq(stderr, i, end)
  BY DEF Slice
<1> HIDE DEF end, Last
<1>7. \A k \in i..end : stderr[k] \in Line
  BY <1>1, <1>2, <1>4
<1> DEFINE slice == SubSeq(stderr, i, end)
<1>8. /\ slice \in Seq(Line) /\ Len(slice) = end - i + 1
      /\ \A k \in 1..end-i+1 : slice[k] = stderr[i+k-1]
  <2>1. i \in Int /\ end \in Int /\ i <= end
    BY <1>2, <1>4
  <2> QED
    BY <1>7, <2>1, SubSeqProperties
<1> HIDE DEF slice
<1>9. DOMAIN slice = 1..end-i+1
  BY <1>8, LenProperties
<1>10. 1 \in DOMAIN slice /\ slice[1] = stderr[i]
  <2>1. i \in Int /\ end \in Int /\ i <= end /\ i + 1 - 1 = i
    BY <1>2, <1>4
  <2>2. 1 \in 1..end-i+1
    BY <2>1
  <2> QED
    BY <1>8, <1>9, <2>1, <2>2
<1>11. ASSUME NEW k \in DOMAIN slice, k # 1
       PROVE  slice[k].text \notin Part
  <2>1. k \in 1..end-i+1 /\ i \in Int /\ end \in Int /\ end <= Len(stderr) /\ i >= 1
    BY <1>1, <1>2, <1>4, <1>9
  <2>2. i + k - 1 \in (i+1)..end /\ i + k - 1 \in 1..Len(stderr)
    BY <1>1, <1>11, <2>1
  <2>3. i + k - 1 \notin Starts(stderr) /\ i + k - 1 \in DOMAIN stderr
    BY <1>1, <1>5, <2>2
  <2>4. stderr[i + k - 1].text \notin Part
    BY <2>3 DEF Starts
  <2> QED
    BY <1>8, <2>1, <2>4
<1> QED
  BY <1>6, <1>8, <1>10, <1>11 DEF slice

\* The blocks are those that begin with "diff --git " or in whose first part
\* there is a "+++": no other line of theirs can bring one in.
LEMMA BlocksProperties ==
    ASSUME NEW stderr \in Seq(Line)
    PROVE  \A i : /\ i \in DOMAIN Blocks(stderr) <=>
                        i \in DOMAIN stderr /\ stderr[i].text \in Git \cup Plus
                  /\ i \in DOMAIN Blocks(stderr) =>
                        /\ Blocks(stderr)[i] = Slice(stderr, i)
                        /\ Blocks(stderr)[i] \in Seq(Line)
                        /\ Blocks(stderr)[i][1] = stderr[i]
<1>1. Git \subseteq Part /\ Plus \subseteq Part
  BY PlansAssumption
<1>2. \A i : i \in Starts(stderr) <=> i \in DOMAIN stderr /\ stderr[i].text \in Part
  BY DEF Starts
<1>3. \A i : /\ i \in DOMAIN Blocks(stderr) <=>
                    i \in Starts(stderr) /\ Kept(Slice(stderr, i))
             /\ i \in DOMAIN Blocks(stderr) => Blocks(stderr)[i] = Slice(stderr, i)
  BY DEF Blocks
<1>4. ASSUME NEW i \in Starts(stderr)
      PROVE  Kept(Slice(stderr, i)) <=> stderr[i].text \in Git \cup Plus
  <2>1. /\ 1 \in DOMAIN Slice(stderr, i) /\ Slice(stderr, i)[1] = stderr[i]
        /\ \A k \in DOMAIN Slice(stderr, i) : k # 1 => Slice(stderr, i)[k].text \notin Part
    BY SliceProperties
  <2>2. (\E k \in DOMAIN Slice(stderr, i) : Slice(stderr, i)[k].text \in Plus)
            <=> stderr[i].text \in Plus
    BY <1>1, <2>1
  <2> QED
    BY <2>1, <2>2 DEF Kept
<1> QED
  BY <1>1, <1>2, <1>3, <1>4, SliceProperties

\* A block belongs to some host, if the dict is not empty.
LEMMA OwnersProperties ==
    ASSUME NEW f \in Fleet, NEW ops \in Orders(Op), NEW report, ReportsOn(f, report, ops),
           NEW block, Keys(report) # {}
    PROVE  Owners(report, block) \subseteq Keys(report) /\ Owners(report, block) # {}
<1>1. FirstKey(report) \in Keys(report)
  BY FirstKeyProperties
<1> QED
  BY <1>1 DEF Owners

-----------------------------------------------------------------------------
(* What normalize keeps of a fleet.                                        *)

LEMMA NormalizeProperties ==
    ASSUME NEW report
    PROVE  /\ DOMAIN Normalize(report) = Keys(report)
           /\ \A h \in Keys(report) :
                /\ Normalize(report)[h].operations = Operations(report, h)
                /\ Normalize(report)[h].diffs = Diffs(report, h)
                /\ Normalize(report)[h].status = Status(report, h, Operations(report, h))
BY DEF Normalize

\* A change or a diff has its place under its host.
LEMMA Places ==
    ASSUME NEW document
    PROVE  /\ \A h, i : <<h, i>> \in ChangePlaces(document) <=>
                /\ h \in DOMAIN document
                /\ i \in DOMAIN document[h].operations
                /\ document[h].operations[i].will_change
           /\ \A place \in ChangePlaces(document) : \E h, i : place = <<h, i>>
           /\ \A h, i : <<h, i>> \in DiffPlaces(document) <=>
                /\ h \in DOMAIN document
                /\ i \in DOMAIN document[h].diffs
           /\ \A place \in DiffPlaces(document) : \E h, i : place = <<h, i>>
BY DEF ChangePlaces, DiffPlaces

\* The operations that a host is mentioned in, as pyinfra planned them.
LEMMA OperationsDomain ==
    ASSUME NEW f \in Fleet, NEW ops \in Orders(Op), NEW report, ReportsOn(f, report, ops), NEW h
    PROVE  \A i :
            /\ i \in DOMAIN Operations(report, h) <=>
                i \in DOMAIN ops /\ h \in Mentioned(Entry(f, ops[i]))
            /\ i \in DOMAIN Operations(report, h) =>
                Operations(report, h)[i] = OperationOf(report, Entry(f, ops[i]), h)
<1>1. report.plan = Plan(f, ops)
  BY DEF ReportsOn
<1>2. /\ DOMAIN report.plan = DOMAIN ops
      /\ \A i \in DOMAIN ops : ops[i] \in Op /\ report.plan[i] = Entry(f, ops[i])
  BY <1>1, PlanProperties
<1> QED
  BY <1>2 DEF Operations

LEMMA OperationFields ==
    ASSUME NEW f \in Fleet, NEW op \in Op, NEW report, NEW h \in Host
    PROVE  /\ OperationOf(report, Entry(f, op), h).op_hash = op
           /\ OperationOf(report, Entry(f, op), h).args_hash = f.args[op]
           /\ OperationOf(report, Entry(f, op), h).will_change <=>
                h \in Examined(f) /\ f.need[h][op] # "no"
           /\ OperationOf(report, Entry(f, op), h).conditional
                = (h \in Examined(f) /\ f.need[h][op] = "maybe")
           /\ OperationOf(report, Entry(f, op), h).result = ResultOf(report, op, h)
<1>1. f.need[h][op] \in Need
  BY DEF Fleet
<1>2. /\ Entry(f, op).op_hash = op
      /\ Entry(f, op).args = f.args[op]
      /\ h \in Entry(f, op).hosts_with_change <=>
            h \in Examined(f) /\ f.need[h][op] = "change"
      /\ h \in Entry(f, op).hosts_with_conditional_change <=>
            h \in Examined(f) /\ f.need[h][op] = "maybe"
  BY DEF Entry, Examined
<1>3. OperationOf(report, Entry(f, op), h).op_hash = op
  BY <1>2 DEF OperationOf
<1>4. OperationOf(report, Entry(f, op), h).args_hash = f.args[op]
  BY <1>2 DEF OperationOf
<1>5. OperationOf(report, Entry(f, op), h).will_change
        = (h \in Entry(f, op).hosts_with_change
                    \cup Entry(f, op).hosts_with_conditional_change)
  BY DEF OperationOf
<1>6. OperationOf(report, Entry(f, op), h).conditional
        = (h \in Entry(f, op).hosts_with_conditional_change)
  BY DEF OperationOf
<1>7. OperationOf(report, Entry(f, op), h).result = ResultOf(report, op, h)
  BY <1>2 DEF OperationOf
<1>8. (f.need[h][op] # "no") <=> (f.need[h][op] = "change" \/ f.need[h][op] = "maybe")
  BY <1>1 DEF Need
<1>9. OperationOf(report, Entry(f, op), h).will_change <=>
        h \in Examined(f) /\ f.need[h][op] # "no"
  BY <1>2, <1>5, <1>8
<1>10. OperationOf(report, Entry(f, op), h).conditional
        = (h \in Examined(f) /\ f.need[h][op] = "maybe")
  BY <1>2, <1>6
<1> QED
  BY <1>3, <1>4, <1>7, <1>9, <1>10

\* The changes of a document are those of the fleet, one place each.
LEMMA ChangePlacesProperties ==
    ASSUME NEW f \in Fleet, NEW ops \in Orders(Op), NEW report, ReportsOn(f, report, ops)
    PROVE  /\ \A h, i : <<h, i>> \in ChangePlaces(Normalize(report)) <=>
                h \in Examined(f) /\ i \in DOMAIN ops /\ f.need[h][ops[i]] # "no"
           /\ \A h, i : <<h, i>> \in ChangePlaces(Normalize(report)) =>
                /\ Operation(Normalize(report), <<h, i>>).op_hash = ops[i]
                /\ Operation(Normalize(report), <<h, i>>).args_hash = f.args[ops[i]]
                /\ Operation(Normalize(report), <<h, i>>).conditional
                        = (f.need[h][ops[i]] = "maybe")
<1>1. ASSUME NEW h, NEW i, <<h, i>> \in ChangePlaces(Normalize(report))
      PROVE  /\ h \in Examined(f) /\ i \in DOMAIN ops /\ f.need[h][ops[i]] # "no"
             /\ Operation(Normalize(report), <<h, i>>).op_hash = ops[i]
             /\ Operation(Normalize(report), <<h, i>>).args_hash = f.args[ops[i]]
             /\ Operation(Normalize(report), <<h, i>>).conditional
                    = (f.need[h][ops[i]] = "maybe")
  <2>1. /\ h \in Keys(report)
        /\ i \in DOMAIN Operations(report, h)
        /\ Operations(report, h)[i].will_change
    BY <1>1, NormalizeProperties, Places
  <2>2. h \in Host
    BY <2>1, KeysProperties
  <2>3. Operation(Normalize(report), <<h, i>>) = Operations(report, h)[i]
    BY <2>1, NormalizeProperties DEF Operation
  <2>4. /\ i \in DOMAIN ops
        /\ Operations(report, h)[i] = OperationOf(report, Entry(f, ops[i]), h)
    BY <2>1, OperationsDomain
  <2>5. ops[i] \in Op
    BY <2>4, PlanProperties
  <2>6. h \in Examined(f) /\ f.need[h][ops[i]] # "no"
    BY <2>1, <2>2, <2>4, <2>5, OperationFields
  <2> QED
    BY <2>2, <2>3, <2>4, <2>5, <2>6, OperationFields
<1>2. ASSUME NEW h \in Examined(f), NEW i \in DOMAIN ops, f.need[h][ops[i]] # "no"
      PROVE  <<h, i>> \in ChangePlaces(Normalize(report))
  <2>1. ops[i] \in Op
    BY PlanProperties
  <2>2. h \in Host /\ h \in Mentioned(Entry(f, ops[i]))
    BY <1>2, <2>1, EntryProperties
  <2>3. h \in Keys(report)
    BY <2>1, <2>2, KeysProperties
  <2>4. /\ i \in DOMAIN Operations(report, h)
        /\ Operations(report, h)[i] = OperationOf(report, Entry(f, ops[i]), h)
    BY <2>2, OperationsDomain
  <2>5. Operations(report, h)[i].will_change
    BY <1>2, <2>1, <2>2, <2>4, OperationFields
  <2> QED
    BY <2>3, <2>4, <2>5, NormalizeProperties, Places
<1> QED
  BY <1>1, <1>2

\* A diff of a document is a block, under a host that it belongs to.
LEMMA DiffPlacesProperties ==
    ASSUME NEW report
    PROVE  /\ \A h, i : <<h, i>> \in DiffPlaces(Normalize(report)) <=>
                /\ h \in Keys(report)
                /\ i \in DOMAIN Blocks(report.stderr)
                /\ h \in Owners(report, Blocks(report.stderr)[i])
           /\ \A h, i : <<h, i>> \in DiffPlaces(Normalize(report)) =>
                Normalize(report)[h].diffs[i] = Blocks(report.stderr)[i]
<1> DEFINE blocks == Blocks(report.stderr)
<1>1. \A h, i : /\ i \in DOMAIN Diffs(report, h) <=>
                    i \in DOMAIN blocks /\ h \in Owners(report, blocks[i])
                /\ i \in DOMAIN Diffs(report, h) => Diffs(report, h)[i] = blocks[i]
  BY DEF Diffs
<1>2. \A h, i : <<h, i>> \in DiffPlaces(Normalize(report)) <=>
                    h \in Keys(report) /\ i \in DOMAIN Diffs(report, h)
  <2>1. \A h, i : <<h, i>> \in DiffPlaces(Normalize(report)) <=>
            /\ h \in DOMAIN Normalize(report)
            /\ i \in DOMAIN Normalize(report)[h].diffs
    BY Places
  <2> QED
    BY <2>1, NormalizeProperties
<1>3. \A h \in Keys(report) : Normalize(report)[h].diffs = Diffs(report, h)
  BY NormalizeProperties
<1> QED
  BY <1>1, <1>2, <1>3

\* The blocks of a check begin with the parts of the fleet's diffs that are no
\* mere removed line.
LEMMA BlocksOfCheck ==
    ASSUME NEW f \in Fleet, NEW report, NEW ops, NEW logs, NEW order,
           ChecksOn(f, report, ops, logs, order)
    PROVE  \A line : (\E i \in DOMAIN Blocks(report.stderr) : Blocks(report.stderr)[i][1] = line)
                        <=> line \in Truth(f).diffs
<1> DEFINE blocks == Blocks(report.stderr)
           printed == Printed(f, Complaints(f), logs)
           Whole(x) == f.text[x[1]][x[2]] \in Git \cup Plus
           LineAt(x) == DiffLine(x[1], f.text[x[1]][x[2]])
<1>1. /\ logs \in SUBSET Log /\ order \in Orders(printed)
      /\ report.stderr = [k \in DOMAIN order |-> LineOf(f, order[k])]
      /\ report.stderr \in Seq(Line)
  BY DEF ChecksOn, ReportsOn
<1>2. Complaints(f) \in SUBSET Host
  BY DEF Complaints
<1>3. /\ \A k \in DOMAIN order : order[k] \in printed
      /\ \A x \in printed : \E k \in DOMAIN order : order[k] = x
  BY <1>1, <1>2, PrintedIsFinite, OrderProperties
<1>4. \A i : /\ i \in DOMAIN blocks <=>
                    i \in DOMAIN order /\ LineOf(f, order[i]).text \in Git \cup Plus
             /\ i \in DOMAIN blocks => blocks[i][1] = LineOf(f, order[i])
  BY <1>1, BlocksProperties
<1>5. /\ Git \subseteq Part /\ Plus \subseteq Part
      /\ Part \cap Host = {} /\ Log \cap Part = {}
  BY PlansAssumption
<1>6. \A x \in Parts(f) : LineAt(x).text = f.text[x[1]][x[2]]
  BY DEF DiffLine
<1>7. Truth(f).diffs = {LineAt(x) : x \in {y \in Parts(f) : Whole(y)}}
  BY DEF Truth
<1> HIDE DEF blocks
<1>8. ASSUME NEW i \in DOMAIN blocks
      PROVE  blocks[i][1] \in {LineAt(x) : x \in {y \in Parts(f) : Whole(y)}}
  <2>1. i \in DOMAIN order /\ LineOf(f, order[i]).text \in Git \cup Plus
    BY <1>4
  <2>2. order[i] \in Parts(f) /\ LineOf(f, order[i]) = LineAt(order[i])
    BY <1>1, <1>2, <1>3, <1>5, <2>1, LineForm
  <2>3. Whole(order[i])
    BY <1>6, <2>1, <2>2
  <2> QED
    BY <1>4, <2>2, <2>3
<1>9. ASSUME NEW x \in Parts(f), Whole(x)
      PROVE  \E i \in DOMAIN blocks : blocks[i][1] = LineAt(x)
  <2>1. PICK k \in DOMAIN order : order[k] = x
    BY <1>3 DEF Printed
  <2>2. x[2] > 0
    BY PartsProperties
  <2>3. LineOf(f, x) = LineAt(x)
    BY <2>2 DEF LineOf
  <2>4. k \in DOMAIN blocks
    BY <1>4, <1>6, <1>9, <2>1, <2>3
  <2> QED
    BY <1>4, <2>1, <2>3, <2>4
<1> HIDE DEF Whole, LineAt
<1>10. \A line : (\E i \in DOMAIN blocks : blocks[i][1] = line) <=> line \in Truth(f).diffs
  BY <1>7, <1>8, <1>9
<1> QED
  BY <1>10 DEF blocks

\* A block of a check is kept under some host.
LEMMA NoBlockIsLost ==
    ASSUME NEW f \in Fleet, NEW ops \in Orders(Op), NEW report, NEW logs, NEW order,
           ChecksOn(f, report, ops, logs, order), NEW i \in DOMAIN Blocks(report.stderr)
    PROVE  \E h : <<h, i>> \in DiffPlaces(Normalize(report))
<1>1. ReportsOn(f, report, ops)
  BY DEF ChecksOn
<1>2. Blocks(report.stderr)[i][1] \in Truth(f).diffs
  BY BlocksOfCheck
<1>3. PICK x \in Parts(f) : TRUE
  BY <1>2 DEF Truth
<1>4. x[1] \in Examined(f) /\ \E op \in Op : f.need[x[1]][op] # "no"
  BY PartsProperties
<1>5. x[1] \in Keys(report)
  BY <1>1, <1>4, EntryProperties, KeysProperties
<1>6. PICK h : h \in Owners(report, Blocks(report.stderr)[i])
  BY <1>1, <1>5, OwnersProperties
<1>7. h \in Keys(report)
  BY <1>1, <1>5, <1>6, OwnersProperties
<1> QED
  BY <1>6, <1>7, DiffPlacesProperties

-----------------------------------------------------------------------------
(* What the fingerprint tells.                                             *)

BagDomain == \A list : DOMAIN BagOf(list) = Range(list)

LEMMA BagDomainHolds == BagDomain
BY DEF BagDomain, BagOf

ShownChange(c) == <<c[1], c[2], c[3], IF c[4] THEN "maybe" ELSE "change">>

\* What is shown of a document, from the lists that are fingerprinted.
LEMMA ShownFromLists ==
    ASSUME NEW document
    PROVE  /\ Shown(document).changes = {ShownChange(c) : c \in Range(ChangesOf(document))}
           /\ Shown(document).diffs = {d[2][1] : d \in Range(DiffsOf(document))}
<1>1. /\ DOMAIN ChangesOf(document) = ChangePlaces(document)
      /\ DOMAIN DiffsOf(document) = DiffPlaces(document)
  BY DEF ChangesOf, DiffsOf
<1>2. \A place \in ChangePlaces(document) :
        ShownChange(ChangesOf(document)[place]) =
            LET operation == Operation(document, place)
            IN  <<place[1], operation.op_hash, operation.args_hash,
                  IF operation.conditional THEN "maybe" ELSE "change">>
  BY DEF ChangesOf, ShownChange
<1>3. \A place \in DiffPlaces(document) :
        DiffsOf(document)[place][2] = document[place[1]].diffs[place[2]]
  BY DEF DiffsOf
<1>4. Shown(document).changes =
        {ShownChange(ChangesOf(document)[place]) : place \in ChangePlaces(document)}
  BY <1>2 DEF Shown
<1>5. Shown(document).diffs = {DiffsOf(document)[place][2][1] : place \in DiffPlaces(document)}
  BY <1>3 DEF Shown
<1>6. {ShownChange(c) : c \in Range(ChangesOf(document))} =
        {ShownChange(ChangesOf(document)[place]) : place \in ChangePlaces(document)}
  BY <1>1 DEF Range
<1>7. {d[2][1] : d \in Range(DiffsOf(document))} =
        {DiffsOf(document)[place][2][1] : place \in DiffPlaces(document)}
  BY <1>1 DEF Range
<1> QED
  BY <1>4, <1>5, <1>6, <1>7

\* Documents with one fingerprint show the same to an approver.
LEMMA FingerprintShows ==
    ASSUME NEW d1, NEW d2, Fingerprint(d1) = Fingerprint(d2)
    PROVE  Shown(d1) = Shown(d2)
<1>1. /\ BagOf(ChangesOf(d1)) = BagOf(ChangesOf(d2))
      /\ BagOf(DiffsOf(d1)) = BagOf(DiffsOf(d2))
  BY DEF Fingerprint
<1>2. /\ Range(ChangesOf(d1)) = Range(ChangesOf(d2))
      /\ Range(DiffsOf(d1)) = Range(DiffsOf(d2))
  BY <1>1, BagDomainHolds DEF BagDomain
<1>3. /\ Shown(d1).changes = Shown(d2).changes
      /\ Shown(d1).diffs = Shown(d2).diffs
  BY <1>2, ShownFromLists
<1> QED
  BY <1>3 DEF Shown

LEMMA PendingIs ==
    ASSUME NEW f \in Fleet
    PROVE  \A c : c \in Pending(f) <=>
            \E h \in Examined(f), op \in Op :
                f.need[h][op] # "no" /\ c = <<h, op, f.args[op], f.need[h][op]>>
<1>1. \A h \in Examined(f), op \in Op :
        <<h, op, f.args[op], f.need[h][op]>>
            \in {<<g, o, f.args[o], "no">> : g \in Host, o \in Op} <=> f.need[h][op] = "no"
  BY EntryProperties
<1>2. \A c : c \in Pending(f) <=>
        /\ \E h \in Examined(f), op \in Op : c = <<h, op, f.args[op], f.need[h][op]>>
        /\ c \notin {<<g, o, f.args[o], "no">> : g \in Host, o \in Op}
  BY DEF Pending
<1> QED
  BY <1>1, <1>2

\* The changes of a document are those of the fleet, and its diffs begin as
\* those of the fleet that are whole, whatever the order of the output.
LEMMA ShownIsTruth ==
    ASSUME NEW f \in Fleet, NEW ops \in Orders(Op), NEW report, NEW logs, NEW order,
           ChecksOn(f, report, ops, logs, order)
    PROVE  Shown(Normalize(report)) = Truth(f)
<1> DEFINE document == Normalize(report)
           Change(place) == LET operation == Operation(document, place)
                            IN  <<place[1], operation.op_hash, operation.args_hash,
                                  IF operation.conditional THEN "maybe" ELSE "change">>
           Begin(place) == document[place[1]].diffs[place[2]][1]
<1>a. ReportsOn(f, report, ops)
  BY DEF ChecksOn
<1>1. ASSUME NEW h, NEW i, <<h, i>> \in ChangePlaces(document)
      PROVE  /\ h \in Examined(f) /\ i \in DOMAIN ops /\ f.need[h][ops[i]] # "no"
             /\ Change(<<h, i>>) = <<h, ops[i], f.args[ops[i]], f.need[h][ops[i]]>>
  <2>1. /\ h \in Examined(f) /\ i \in DOMAIN ops /\ f.need[h][ops[i]] # "no"
        /\ Operation(document, <<h, i>>).op_hash = ops[i]
        /\ Operation(document, <<h, i>>).args_hash = f.args[ops[i]]
        /\ Operation(document, <<h, i>>).conditional = (f.need[h][ops[i]] = "maybe")
    BY <1>a, <1>1, ChangePlacesProperties
  <2>2. ops[i] \in Op
    BY <2>1, PlanProperties
  <2>3. f.need[h][ops[i]] \in Need
    BY <2>1, <2>2, EntryProperties DEF Fleet
  <2> QED
    BY <2>1, <2>3 DEF Need
<1>2. Shown(document).changes = Pending(f)
  <2>1. Shown(document).changes = {Change(place) : place \in ChangePlaces(document)}
    BY DEF Shown
  <2> HIDE DEF document, Change
  <2>2. ASSUME NEW place \in ChangePlaces(document)
        PROVE  Change(place) \in Pending(f)
    <3>1. PICK h, i : place = <<h, i>>
      BY Places
    <3>2. ops[i] \in Op
      BY <1>1, <2>2, <3>1, PlanProperties
    <3> QED
      BY <1>1, <2>2, <3>1, <3>2, PendingIs
  <2>3. ASSUME NEW c \in Pending(f)
        PROVE  \E place \in ChangePlaces(document) : c = Change(place)
    <3>1. PICK h \in Examined(f), op \in Op :
            f.need[h][op] # "no" /\ c = <<h, op, f.args[op], f.need[h][op]>>
      BY PendingIs
    <3>2. PICK i \in DOMAIN ops : ops[i] = op
      BY PlanProperties
    <3>3. <<h, i>> \in ChangePlaces(document)
      BY <1>a, <3>1, <3>2, ChangePlacesProperties DEF document
    <3> QED
      BY <1>1, <3>1, <3>2, <3>3
  <2> QED
    BY <2>1, <2>2, <2>3
<1>3. Shown(document).diffs = Truth(f).diffs
  <2>1. Shown(document).diffs = {Begin(place) : place \in DiffPlaces(document)}
    BY DEF Shown
  <2>2. ASSUME NEW h, NEW i, <<h, i>> \in DiffPlaces(document)
        PROVE  /\ i \in DOMAIN Blocks(report.stderr)
               /\ Begin(<<h, i>>) = Blocks(report.stderr)[i][1]
    BY <2>2, DiffPlacesProperties
  <2>3. \A i \in DOMAIN Blocks(report.stderr) : \E h : <<h, i>> \in DiffPlaces(document)
    BY NoBlockIsLost
  <2>4. \A place \in DiffPlaces(document) : \E h, i : place = <<h, i>>
    BY Places
  <2> HIDE DEF document, Begin
  <2>5. \A place \in DiffPlaces(document) : Begin(place) \in Truth(f).diffs
    BY <2>2, <2>4, BlocksOfCheck
  <2>6. \A line \in Truth(f).diffs : \E place \in DiffPlaces(document) : Begin(place) = line
    <3> TAKE line \in Truth(f).diffs
    <3>1. PICK i \in DOMAIN Blocks(report.stderr) : Blocks(report.stderr)[i][1] = line
      BY BlocksOfCheck
    <3>2. PICK h : <<h, i>> \in DiffPlaces(document)
      BY <2>3
    <3> QED
      BY <2>2, <3>1, <3>2
  <2> QED
    BY <2>1, <2>5, <2>6
<1> HIDE DEF document
<1>4. Shown(document) = [changes |-> Shown(document).changes, diffs |-> Shown(document).diffs]
  BY DEF Shown
<1>5. Truth(f) = [changes |-> Pending(f), diffs |-> Truth(f).diffs]
  BY DEF Truth
<1> QED
  BY <1>2, <1>3, <1>4, <1>5 DEF document

-----------------------------------------------------------------------------
(* What the fingerprint forgets: the order.                                *)

\* The hosts under which a block is kept when the inventory was listed.
KeptUnder(block) ==
    IF NamesIn(block) \cap Host # {} THEN NamesIn(block) \cap Host ELSE {Names[1]}

\* The fingerprint of a listed check, from what pyinfra found and printed.
Expected(raw) ==
    [operations |-> [c \in {<<p[1], p[2], p[3], p[4] = "maybe">> : p \in raw.changes} |-> 1],
     diffs |-> [d \in {e \in Host \X DOMAIN raw.blocks : e[1] \in KeptUnder(e[2])} |->
                    raw.blocks[d[2]]]]

\* Every change is listed once.
LEMMA ChangesAreCounted ==
    ASSUME NEW f \in Fleet, NEW ops \in Orders(Op), NEW report, ReportsOn(f, report, ops)
    PROVE  BagOf(ChangesOf(Normalize(report))) = Expected(Finding(f, report)).operations
<1> DEFINE list == ChangesOf(Normalize(report))
           Listed(p) == <<p[1], p[2], p[3], p[4] = "maybe">>
           D == {Listed(p) : p \in Pending(f)}
<1>1. /\ DOMAIN list = ChangePlaces(Normalize(report))
      /\ \A place \in DOMAIN list : \E h, i : place = <<h, i>>
  BY Places DEF ChangesOf
<1>2. ASSUME NEW h, NEW i, <<h, i>> \in DOMAIN list
      PROVE  /\ h \in Examined(f) /\ i \in DOMAIN ops /\ f.need[h][ops[i]] # "no"
             /\ list[<<h, i>>] = <<h, ops[i], f.args[ops[i]], f.need[h][ops[i]] = "maybe">>
  <2>1. /\ h \in Examined(f) /\ i \in DOMAIN ops /\ f.need[h][ops[i]] # "no"
        /\ Operation(Normalize(report), <<h, i>>).op_hash = ops[i]
        /\ Operation(Normalize(report), <<h, i>>).args_hash = f.args[ops[i]]
        /\ Operation(Normalize(report), <<h, i>>).conditional
                = (f.need[h][ops[i]] = "maybe")
    BY <1>1, <1>2, ChangePlacesProperties
  <2>2. list[<<h, i>>] =
            LET operation == Operation(Normalize(report), <<h, i>>)
            IN  <<h, operation.op_hash, operation.args_hash, operation.conditional>>
    BY <1>1, <1>2 DEF ChangesOf
  <2> QED
    BY <2>1, <2>2
<1> HIDE DEF list
<1>3. ASSUME NEW place \in DOMAIN list
      PROVE  list[place] \in D
  <2>1. PICK h, i : place = <<h, i>>
    BY <1>1
  <2>2. ops[i] \in Op
    BY <1>2, <2>1, PlanProperties
  <2> DEFINE p == <<h, ops[i], f.args[ops[i]], f.need[h][ops[i]]>>
  <2>3. p \in Pending(f)
    BY <1>2, <2>1, <2>2, PendingIs
  <2>4. list[place] = Listed(p)
    BY <1>2, <2>1
  <2> QED
    BY <2>3, <2>4
<1>4. ASSUME NEW c \in D
      PROVE  \E place \in DOMAIN list : list[place] = c
  <2>1. PICK p \in Pending(f) : c = Listed(p)
    OBVIOUS
  <2>2. PICK h \in Examined(f), op \in Op :
            f.need[h][op] # "no" /\ p = <<h, op, f.args[op], f.need[h][op]>>
    BY PendingIs
  <2>3. PICK i \in DOMAIN ops : ops[i] = op
    BY PlanProperties
  <2>4. <<h, i>> \in DOMAIN list
    BY <1>1, <2>2, <2>3, ChangePlacesProperties
  <2> QED
    BY <1>2, <2>1, <2>2, <2>3, <2>4
<1>5. ASSUME NEW c \in D
      PROVE  Cardinality({place \in DOMAIN list : list[place] = c}) = 1
  <2>1. PICK place \in DOMAIN list : list[place] = c
    BY <1>4
  <2>2. ASSUME NEW other \in DOMAIN list, list[other] = c
        PROVE  other = place
    <3>1. PICK h, i : place = <<h, i>>
      BY <1>1
    <3>2. PICK g, j : other = <<g, j>>
      BY <1>1
    <3>3. i \in DOMAIN ops /\ j \in DOMAIN ops /\ h = g /\ ops[i] = ops[j]
      BY <1>2, <2>1, <2>2, <3>1, <3>2
    <3> QED
      BY <3>1, <3>2, <3>3, PlansAssumption, OrderProperties
  <2>3. {other \in DOMAIN list : list[other] = c} = {place}
    BY <2>1, <2>2
  <2> QED
    BY <2>3, FS_Singleton
<1>6. Range(list) = D
  BY <1>3, <1>4 DEF Range
<1>7. BagOf(list) = [c \in D |-> 1]
  BY <1>5, <1>6 DEF BagOf
<1>8. Finding(f, report).changes = Pending(f)
  BY DEF Finding
<1>9. Expected(Finding(f, report)).operations = [c \in D |-> 1]
  BY <1>8 DEF Expected
<1> QED
  BY <1>7, <1>9 DEF list

\* A block is listed under each of its hosts as often as pyinfra printed it.
LEMMA DiffsAreCounted ==
    ASSUME NEW f \in Fleet, NEW ops \in Orders(Op), NEW report, ReportsOn(f, report, ops),
           report.inventory = Host
    PROVE  BagOf(DiffsOf(Normalize(report))) = Expected(Finding(f, report)).diffs
<1> DEFINE list == DiffsOf(Normalize(report))
           blocks == Blocks(report.stderr)
           D == {e \in Host \X Range(blocks) : e[1] \in KeptUnder(e[2])}
<1>1. Keys(report) = Host
  BY KeysProperties
<1>2. ASSUME NEW h \in Host, NEW block
      PROVE  Owners(report, block) = KeptUnder(block)
  <2>1. FirstKey(report) = Names[1]
    BY <1>1, FirstKeyProperties
  <2> QED
    BY <1>1, <2>1 DEF Owners, KeptUnder
<1>3. /\ DOMAIN list = DiffPlaces(Normalize(report))
      /\ \A place \in DOMAIN list : \E h, i : place = <<h, i>>
  BY Places DEF DiffsOf
<1>4. \A h, i : <<h, i>> \in DOMAIN list <=>
            h \in Host /\ i \in DOMAIN blocks /\ h \in KeptUnder(blocks[i])
  <2>1. \A h, i : <<h, i>> \in DiffPlaces(Normalize(report)) <=>
            h \in Keys(report) /\ i \in DOMAIN blocks /\ h \in Owners(report, blocks[i])
    BY DiffPlacesProperties
  <2> HIDE DEF list, blocks
  <2>2. \A h, i : h \in Keys(report) => Owners(report, blocks[i]) = KeptUnder(blocks[i])
    BY <1>1, <1>2
  <2>3. \A h, i : <<h, i>> \in DiffPlaces(Normalize(report)) <=>
            h \in Keys(report) /\ i \in DOMAIN blocks /\ h \in KeptUnder(blocks[i])
    BY <2>1, <2>2
  <2> QED
    BY <1>1, <1>3, <2>3
<1>5. ASSUME NEW h, NEW i, <<h, i>> \in DOMAIN list
      PROVE  list[<<h, i>>] = <<h, blocks[i]>>
  <2>1. Normalize(report)[h].diffs[i] = blocks[i]
    BY <1>3, <1>5, DiffPlacesProperties
  <2>2. list[<<h, i>>] = <<h, Normalize(report)[h].diffs[i]>>
    BY <1>3, <1>5 DEF DiffsOf
  <2> QED
    BY <2>1, <2>2
<1>6. IsFiniteSet(DOMAIN blocks)
  <2>1. report.stderr \in Seq(Line)
    BY DEF ReportsOn
  <2>2. Len(report.stderr) \in Nat /\ DOMAIN report.stderr = 1..Len(report.stderr)
    BY <2>1, LenProperties
  <2>3. DOMAIN blocks \subseteq 1..Len(report.stderr)
    BY <2>1, <2>2, BlocksProperties
  <2>4. IsFiniteSet(1..Len(report.stderr))
    BY <2>2, FS_Interval
  <2> HIDE DEF blocks
  <2> QED
    BY <2>3, <2>4, FS_Subset
<1> HIDE DEF list, blocks
<1>7. ASSUME NEW place \in DOMAIN list
      PROVE  list[place] \in D
  <2>1. PICK h, i : place = <<h, i>>
    BY <1>3
  <2>2. blocks[i] \in Range(blocks)
    BY <1>4, <2>1 DEF Range
  <2> QED
    BY <1>4, <1>5, <2>1, <2>2
<1>8. ASSUME NEW h \in Host, NEW b \in Range(blocks), h \in KeptUnder(b)
      PROVE  /\ \E place \in DOMAIN list : list[place] = <<h, b>>
             /\ Cardinality({place \in DOMAIN list : list[place] = <<h, b>>})
                    = Cardinality({i \in DOMAIN blocks : blocks[i] = b})
  <2> DEFINE U == {i \in DOMAIN blocks : blocks[i] = b}
             T == {place \in DOMAIN list : list[place] = <<h, b>>}
             at == [i \in U |-> <<h, i>>]
  <2>1. IsFiniteSet(U)
    <3>1. U \subseteq DOMAIN blocks
      OBVIOUS
    <3> HIDE DEF U
    <3> QED
      BY <1>6, <3>1, FS_Subset
  <2>2. \A i \in U : at[i] \in T
    <3> TAKE i \in U
    <3>1. <<h, i>> \in DOMAIN list
      BY <1>4, <1>8
    <3> QED
      BY <1>5, <3>1
  <2>3. \A place \in T : \E i \in U : at[i] = place
    <3> TAKE place \in T
    <3>1. PICK k, i : place = <<k, i>>
      BY <1>3
    <3>2. k = h /\ blocks[i] = b
      BY <1>5, <3>1
    <3>3. i \in U
      BY <1>4, <3>1, <3>2
    <3> QED
      BY <3>1, <3>2, <3>3
  <2>4. \A i, j \in U : at[i] = at[j] => i = j
    OBVIOUS
  <2>5. Cardinality(T) = Cardinality(U)
    <3>1. DOMAIN at = U
      OBVIOUS
    <3> HIDE DEF T, U, at
    <3> QED
      BY <2>1, <2>2, <2>3, <2>4, <3>1, EqualCounts
  <2>6. \E i \in U : TRUE
    BY DEF Range
  <2> QED
    BY <2>2, <2>5, <2>6
<1>9. Range(list) = D
  <2>1. \A e \in D : \E place \in DOMAIN list : list[place] = e
    <3> TAKE e \in D
    <3>1. PICK h \in Host, b \in Range(blocks) : e = <<h, b>> /\ h \in KeptUnder(b)
      OBVIOUS
    <3> HIDE DEF D
    <3> QED
      BY <1>8, <3>1
  <2> HIDE DEF D
  <2> QED
    BY <1>7, <2>1 DEF Range
<1>10. \A e \in D : Cardinality({place \in DOMAIN list : list[place] = e})
                        = BagOf(blocks)[e[2]]
  <2> TAKE e \in D
  <2>1. PICK h \in Host, b \in Range(blocks) : e = <<h, b>> /\ h \in KeptUnder(b)
    OBVIOUS
  <2>2. BagOf(blocks)[b] = Cardinality({i \in DOMAIN blocks : blocks[i] = b})
    BY <2>1 DEF BagOf
  <2>3. e[2] = b
    BY <2>1
  <2> HIDE DEF D
  <2>4. Cardinality({place \in DOMAIN list : list[place] = <<h, b>>}) = BagOf(blocks)[b]
    BY <1>8, <2>1, <2>2
  <2> QED
    BY <2>1, <2>3, <2>4
<1>11. BagOf(list) = [e \in D |-> BagOf(blocks)[e[2]]]
  <2> HIDE DEF D
  <2> QED
    BY <1>9, <1>10 DEF BagOf
<1>12. Finding(f, report).blocks = BagOf(blocks) /\ DOMAIN BagOf(blocks) = Range(blocks)
  BY DEF Finding, BagOf, blocks
<1>13. Expected(Finding(f, report)).diffs = [e \in D |-> BagOf(blocks)[e[2]]]
  BY <1>12 DEF Expected
<1> QED
  BY <1>11, <1>13 DEF list

\* If the inventory was listed, the fingerprint is that of what pyinfra found
\* and printed.
LEMMA FingerprintIsExpected ==
    ASSUME NEW f \in Fleet, NEW ops \in Orders(Op), NEW report, ReportsOn(f, report, ops),
           report.inventory = Host
    PROVE  Fingerprint(Normalize(report)) = Expected(Finding(f, report))
<1> DEFINE found == Finding(f, report)
<1>1. /\ BagOf(ChangesOf(Normalize(report))) = Expected(found).operations
      /\ BagOf(DiffsOf(Normalize(report))) = Expected(found).diffs
  BY ChangesAreCounted, DiffsAreCounted
<1> HIDE DEF found
<1>2. Expected(found) = [operations |-> Expected(found).operations,
                         diffs |-> Expected(found).diffs]
  BY DEF Expected
<1> QED
  BY <1>1, <1>2 DEF Fingerprint, found

\* A check with an inventory has the fingerprint that its finding tells.
LEMMA CheckIsExpected ==
    ASSUME NEW f \in Fleet, NEW report \in CheckReports(f), report # NoReport,
           report.inventory # {}
    PROVE  Fingerprint(Normalize(report)) = Expected(Finding(f, report))
<1>1. PICK ops \in Orders(Op) : \E logs, order : ChecksOn(f, report, ops, logs, order)
  BY CheckReportForm
<1>2. ReportsOn(f, report, ops) /\ report.inventory = Host
  BY <1>1 DEF ChecksOn, ReportsOn
<1> QED
  BY <1>2, FingerprintIsExpected

\* The fingerprints of two checks, of one fleet or of two states of it, are
\* equal only if the fleets need the same changes with the same arguments and
\* the same diffs, but for what stands behind a removed line "-- x"; and
\* whenever pyinfra found the same changes, listed the inventory and printed
\* the same blocks, in any order (fingerprint and _diff_blocks in
\* plans/normalize.py).  Blocks take in the lines behind a diff: with others
\* there, the fingerprints of an unmoved fleet differ.
THEOREM FingerprintComparesFleets ==
    ASSUME NEW f \in Fleet, NEW r \in CheckReports(f), r # NoReport,
           NEW g \in Fleet, NEW s \in CheckReports(g), s # NoReport
    PROVE  /\ Fingerprint(Normalize(r)) = Fingerprint(Normalize(s)) => Truth(f) = Truth(g)
           /\ Finding(f, r) = Finding(g, s) /\ r.inventory # {} /\ s.inventory # {} =>
                Fingerprint(Normalize(r)) = Fingerprint(Normalize(s))
<1>1. PICK ops \in Orders(Op) : \E logs, order : ChecksOn(f, r, ops, logs, order)
  BY CheckReportForm
<1>2. PICK ops2 \in Orders(Op) : \E logs, order : ChecksOn(g, s, ops2, logs, order)
  BY CheckReportForm
<1>3. Shown(Normalize(r)) = Truth(f) /\ Shown(Normalize(s)) = Truth(g)
  BY <1>1, <1>2, ShownIsTruth
<1>4. ASSUME Fingerprint(Normalize(r)) = Fingerprint(Normalize(s)) PROVE Truth(f) = Truth(g)
  BY <1>3, <1>4, FingerprintShows
<1>5. ASSUME Finding(f, r) = Finding(g, s), r.inventory # {}, s.inventory # {}
      PROVE  Fingerprint(Normalize(r)) = Fingerprint(Normalize(s))
  BY <1>5, CheckIsExpected
<1> QED
  BY <1>4, <1>5

-----------------------------------------------------------------------------
(* The row of the run.                                                     *)

Fields == {"state", "document", "fingerprint", "raw", "listed", "approved", "outcome"}

Open == {"needs_approval", "approved", "apply_running"}

\* PlansTypeOK is inductive only with what the fingerprint of an open run is
\* the fingerprint of; that no order entered it is what a return needs.
RowInv ==
    /\ PlansTypeOK
    /\ DOMAIN run = Fields
    /\ run.state \in Open => run.fingerprint = Fingerprint(run.document)
    /\ run.listed => run.fingerprint = Expected(run.raw)

LEMMA DriftKeepsFleet ==
    ASSUME fleet \in Fleet, Drift
    PROVE  fleet' \in Fleet
<1>1. ASSUME NEW h \in Host, NEW op \in Op, NEW need \in Need,
             fleet' = [fleet EXCEPT !.need[h][op] = need]
      PROVE  fleet' \in Fleet
  BY <1>1 DEF Fleet
<1>2. ASSUME NEW op \in Op, NEW arg \in Arg, fleet' = [fleet EXCEPT !.args[op] = arg]
      PROVE  fleet' \in Fleet
  BY <1>2 DEF Fleet
<1>3. ASSUME NEW h \in Host, NEW c \in Condition, fleet' = [fleet EXCEPT !.condition[h] = c]
      PROVE  fleet' \in Fleet
  BY <1>3 DEF Fleet
<1>4. ASSUME NEW h \in Host, NEW t \in Text \cup {<<>>},
             fleet' = [fleet EXCEPT !.text[h] = t]
      PROVE  fleet' \in Fleet
  BY <1>4 DEF Fleet
<1> QED
  BY <1>1, <1>2, <1>3, <1>4 DEF Drift

LEMMA AfterIsFleet ==
    ASSUME NEW f \in Fleet, NEW ops, NEW ending
    PROVE  After(f, ops, ending) \in Fleet
<1>1. [h \in Host |-> [op \in Op |->
            IF op \in Done(f, ops, ending, h) THEN "no" ELSE f.need[h][op]]]
        \in [Host -> [Op -> Need]]
  BY DEF Fleet, Need
<1> QED
  BY <1>1 DEF After, Fleet

LEMMA InitRow == Init => RowInv
<1> SUFFICES ASSUME Init PROVE RowInv
  OBVIOUS
<1>1. fleet \in Fleet /\ drifts = 0
  BY PlansAssumption DEF Init, Fleet, Need, Condition
<1>2. drifts \in 0..MaxDrifts
  BY <1>1, PlansAssumption
<1>3. /\ run.state = "check_running" /\ run.document = <<>> /\ run.listed = FALSE
      /\ DOMAIN run = Fields /\ going = FALSE
  BY DEF Init, Fields
<1> QED
  BY <1>1, <1>2, <1>3 DEF RowInv, PlansTypeOK, Open

LEMMA CheckResultKeepsRow ==
    ASSUME RowInv, NEW report \in CheckReports(fleet), CheckResult(report)
    PROVE  RowInv'
<1> USE DEF RowInv, PlansTypeOK
<1>1. fleet \in Fleet /\ UNCHANGED <<fleet, drifts, going>> /\ ~going
  BY DEF CheckResult
<1>2. CASE report = NoReport
  <2>1. run' = [run EXCEPT !.state = "check_failed"]
    BY <1>2 DEF CheckResult
  <2>2. /\ DOMAIN run' = Fields /\ run'.state = "check_failed"
        /\ run'.document = run.document /\ run'.fingerprint = run.fingerprint
        /\ run'.raw = run.raw /\ run'.listed = run.listed
    BY <2>1 DEF Fields
  <2> QED
    BY <1>1, <2>2 DEF Open
<1>3. CASE report # NoReport
  <2>1. run' = [run EXCEPT !.state = Verdict(report, Normalize(report)),
                           !.document = Normalize(report),
                           !.fingerprint = Fingerprint(Normalize(report)),
                           !.raw = Finding(fleet, report),
                           !.listed = report.inventory # {}]
    BY <1>3 DEF CheckResult
  <2>2. /\ DOMAIN run' = Fields /\ run'.state = Verdict(report, Normalize(report))
        /\ run'.document = Normalize(report)
        /\ run'.fingerprint = Fingerprint(Normalize(report))
        /\ run'.raw = Finding(fleet, report) /\ run'.listed = (report.inventory # {})
    BY <2>1 DEF Fields
  <2>3. run'.state \in {"check_failed", "unchanged", "needs_approval"}
    BY <2>2 DEF Verdict
  <2>4. run'.listed => run'.fingerprint = Expected(run'.raw)
    BY <1>3, <2>2, CheckIsExpected
  <2>5. run'.fingerprint = Fingerprint(run'.document)
    BY <2>2
  <2> QED
    BY <1>1, <2>2, <2>3, <2>4, <2>5 DEF Open
<1> QED
  BY <1>2, <1>3

LEMMA ChangeSetMovedKeepsRow ==
    ASSUME RowInv, NEW report \in CheckReports(fleet), ChangeSetMoved(report)
    PROVE  RowInv'
<1> USE DEF RowInv, PlansTypeOK
<1>1. fleet \in Fleet /\ UNCHANGED <<fleet, drifts, going>> /\ ~going /\ report # NoReport
  BY DEF ChangeSetMoved, NoReport
<1>2. run' = [run EXCEPT !.state = "needs_approval",
                         !.document = Normalize(report),
                         !.fingerprint = Fingerprint(Normalize(report)),
                         !.raw = Finding(fleet, report),
                         !.listed = report.inventory # {},
                         !.approved = NoPrint]
  BY DEF ChangeSetMoved
<1>3. /\ DOMAIN run' = Fields /\ run'.state = "needs_approval"
      /\ run'.document = Normalize(report)
      /\ run'.fingerprint = Fingerprint(Normalize(report))
      /\ run'.raw = Finding(fleet, report) /\ run'.listed = (report.inventory # {})
  BY <1>2 DEF Fields
<1>4. run'.listed => run'.fingerprint = Expected(run'.raw)
  BY <1>1, <1>3, CheckIsExpected
<1>5. run'.fingerprint = Fingerprint(run'.document)
  BY <1>3
<1> QED
  BY <1>1, <1>3, <1>4, <1>5 DEF Open

LEMMA StepKeepsRow ==
    ASSUME RowInv, [Next]_vars
    PROVE  RowInv'
<1> USE DEF RowInv, PlansTypeOK
<1>1. CASE Drift
  <2>1. fleet' \in Fleet
    BY <1>1, DriftKeepsFleet
  <2>a. MaxDrifts \in Nat
    BY PlansAssumption
  <2>2. drifts' \in 0..MaxDrifts /\ UNCHANGED <<run, going>>
    BY <1>1, <2>a DEF Drift
  <2> QED
    BY <2>1, <2>2 DEF Open
<1>2. ASSUME NEW report \in CheckReports(fleet),
             \/ CheckResult(report)
             \/ PrecheckFails(report)
             \/ ChangeSetMoved(report)
             \/ Proceed(report)
      PROVE  RowInv'
  <2>1. CASE CheckResult(report)
    BY <2>1, CheckResultKeepsRow
  <2>2. CASE PrecheckFails(report)
    <3>1. /\ run' = [run EXCEPT !.state = "apply_failed"]
          /\ UNCHANGED <<fleet, drifts, going>> /\ ~going
      BY <2>2 DEF PrecheckFails
    <3>2. /\ DOMAIN run' = Fields /\ run'.state = "apply_failed"
          /\ run'.document = run.document /\ run'.fingerprint = run.fingerprint
          /\ run'.raw = run.raw /\ run'.listed = run.listed
      BY <3>1 DEF Fields
    <3> QED
      BY <3>1, <3>2 DEF Open
  <2>3. CASE ChangeSetMoved(report)
    BY <2>3, ChangeSetMovedKeepsRow
  <2>4. CASE Proceed(report)
    BY <2>4 DEF Proceed, Open
  <2> QED
    BY <1>2, <2>1, <2>2, <2>3, <2>4
<1>3. CASE Approve
  <2>1. /\ run.state = "needs_approval" /\ ~Blocked(run.document)
        /\ run' = [run EXCEPT !.state = "approved", !.approved = run.fingerprint]
        /\ UNCHANGED <<fleet, drifts, going>> /\ ~going
    BY <1>3 DEF Approve
  <2>2. /\ DOMAIN run' = Fields /\ run'.state = "approved"
        /\ run'.document = run.document /\ run'.fingerprint = run.fingerprint
        /\ run'.raw = run.raw /\ run'.listed = run.listed
        /\ run'.approved = run.fingerprint
    BY <2>1 DEF Fields
  <2> QED
    BY <2>1, <2>2 DEF Open
<1>4. CASE Dispatch
  <2>1. /\ run.state = "approved" /\ run' = [run EXCEPT !.state = "apply_running"]
        /\ UNCHANGED <<fleet, drifts, going>> /\ ~going
    BY <1>4 DEF Dispatch
  <2>2. /\ DOMAIN run' = Fields /\ run'.state = "apply_running"
        /\ run'.document = run.document /\ run'.fingerprint = run.fingerprint
        /\ run'.raw = run.raw /\ run'.listed = run.listed
        /\ run'.approved = run.approved
    BY <2>1 DEF Fields
  <2> QED
    BY <2>1, <2>2 DEF Open
<1>5. ASSUME NEW ops \in Orders(Op), NEW ending \in Endings(fleet), NEW code \in {0, 1},
             NEW order \in Orders(Lost(fleet, ending)),
             ApplyResult(ApplyReport(fleet, ops, order, ending, code),
                         After(fleet, ops, ending))
      PROVE  RowInv'
  <2> DEFINE report == ApplyReport(fleet, ops, order, ending, code)
             state == IF report.exit_code # 0 \/ With(Normalize(report), "failed") # {}
                      THEN "apply_failed"
                      ELSE "succeeded"
             statuses == [h \in DOMAIN Normalize(report) |-> Normalize(report)[h].status]
  <2>1. /\ run.state = "apply_running"
        /\ run' = [run EXCEPT !.state = state, !.outcome = statuses]
        /\ going' = FALSE /\ UNCHANGED drifts
        /\ fleet' = After(fleet, ops, ending)
    BY <1>5 DEF ApplyResult
  <2>2. state \in {"apply_failed", "succeeded"}
    OBVIOUS
  <2> HIDE DEF report, state, statuses
  <2>3. /\ DOMAIN run' = Fields /\ run'.state = state
        /\ run'.document = run.document /\ run'.fingerprint = run.fingerprint
        /\ run'.raw = run.raw /\ run'.listed = run.listed
        /\ run'.approved = run.approved
    BY <2>1 DEF Fields
  <2>4. fleet' \in Fleet
    BY <2>1, AfterIsFleet
  <2> QED
    BY <2>1, <2>2, <2>3, <2>4 DEF Open
<1>6. CASE ApplyHasNoResult
  <2>1. /\ run' = [run EXCEPT !.state = "apply_failed"]
        /\ going' = FALSE /\ UNCHANGED <<fleet, drifts>>
    BY <1>6 DEF ApplyHasNoResult
  <2>2. /\ DOMAIN run' = Fields /\ run'.state = "apply_failed"
        /\ run'.document = run.document /\ run'.fingerprint = run.fingerprint
        /\ run'.raw = run.raw /\ run'.listed = run.listed
    BY <2>1 DEF Fields
  <2> QED
    BY <2>1, <2>2 DEF Open
<1>7. CASE UNCHANGED vars
  BY <1>7 DEF vars, Open
<1> QED
  BY <1>1, <1>2, <1>3, <1>4, <1>5, <1>6, <1>7 DEF Next

\* A run's document and fingerprint belong together, and what is applied is an
\* unblocked plan that was approved (runs/service.py 164-171, 219-238).
THEOREM RowHolds == Spec => []PlansTypeOK
<1>1. RowInv => PlansTypeOK
  BY DEF RowInv
<1> QED
  BY <1>1, InitRow, StepKeepsRow, PTL DEF Spec

-----------------------------------------------------------------------------
(* The decisions.                                                          *)

LEMMA ReviewedStep ==
    ASSUME RowInv, Next, ~going, going'
    PROVE  Truth(fleet) = Shown(run.document)
<1>1. PICK report \in CheckReports(fleet) : Proceed(report)
  <2>1. ~Drift /\ ~Approve /\ ~Dispatch /\ ~ApplyHasNoResult
    BY DEF Drift, Approve, Dispatch, ApplyHasNoResult
  <2>2. \A report, next : ~ApplyResult(report, next)
    BY DEF ApplyResult
  <2>3. \A report : ~CheckResult(report) /\ ~PrecheckFails(report) /\ ~ChangeSetMoved(report)
    BY DEF CheckResult, PrecheckFails, ChangeSetMoved
  <2> QED
    BY <2>1, <2>2, <2>3 DEF Next
<1>2. /\ run.state = "apply_running" /\ report.exit_code = 0
      /\ Fingerprint(Normalize(report)) = run.approved
  BY <1>1 DEF Proceed
<1>3. run.approved = run.fingerprint /\ run.fingerprint = Fingerprint(run.document)
  BY <1>2 DEF RowInv, PlansTypeOK, Open
<1>4. Shown(Normalize(report)) = Shown(run.document)
  BY <1>2, <1>3, FingerprintShows
<1>5. fleet \in Fleet /\ report # NoReport
  BY <1>2 DEF RowInv, PlansTypeOK, NoReport
<1>6. PICK ops \in Orders(Op) : \E logs, order : ChecksOn(fleet, report, ops, logs, order)
  BY <1>5, CheckReportForm
<1>7. Shown(Normalize(report)) = Truth(fleet)
  BY <1>5, <1>6, ShownIsTruth
<1> QED
  BY <1>4, <1>7

\* An apply goes on only while the fleet needs exactly the changes that the
\* approver was shown, with the diffs as far as _diff_blocks keeps them: to the
\* first removed line "-- x" (README.md:13, ingest_apply_precheck).
THEOREM OnlyReviewed == Spec => OnlyTheReviewedIsApplied
<1>1. RowInv /\ [Next]_vars =>
        [~going /\ going' => Truth(fleet) = Shown(run.document)]_vars
  BY ReviewedStep
<1> QED
  BY <1>1, InitRow, StepKeepsRow, PTL DEF Spec, OnlyTheReviewedIsApplied

LEMMA ReturnStep ==
    ASSUME RowInv, Next, run.state = "apply_running", run'.state = "needs_approval",
           run.listed, run'.listed
    PROVE  run'.raw # run.raw
<1>1. PICK report \in CheckReports(fleet) : ChangeSetMoved(report)
  <2> USE DEF RowInv, Fields
  <2>1. ~Drift /\ ~Approve /\ ~Dispatch
    BY DEF Drift, Approve, Dispatch
  <2>2. ~ApplyHasNoResult
    BY DEF ApplyHasNoResult
  <2>3. \A report, next : ~ApplyResult(report, next)
    <3> TAKE report, next
    <3>1. ApplyResult(report, next) => run'.state \in {"apply_failed", "succeeded"}
      BY DEF ApplyResult
    <3> QED
      BY <3>1
  <2>4. \A report : ~CheckResult(report) /\ ~PrecheckFails(report) /\ ~Proceed(report)
    BY DEF CheckResult, PrecheckFails, Proceed
  <2> QED
    BY <2>1, <2>2, <2>3, <2>4 DEF Next
<1>2. /\ report.exit_code = 0
      /\ Fingerprint(Normalize(report)) # run.approved
      /\ run'.listed = (report.inventory # {})
      /\ run'.raw = Finding(fleet, report)
  BY <1>1 DEF ChangeSetMoved, RowInv, Fields
<1>3. fleet \in Fleet /\ report # NoReport
  BY <1>2 DEF RowInv, PlansTypeOK, NoReport
<1>4. Fingerprint(Normalize(report)) = Expected(Finding(fleet, report))
  BY <1>2, <1>3, CheckIsExpected
<1>5. run.approved = Expected(run.raw)
  BY DEF RowInv, PlansTypeOK
<1> QED
  BY <1>2, <1>4, <1>5

\* An apply returns to review only when pyinfra finds other changes, or prints
\* other blocks: the order of operations and blocks, and what stands in front of
\* the first of them, have no part in it (the sort in fingerprint).
THEOREM OnlyDrift == Spec => OnlyDriftReturns
<1>1. RowInv /\ [Next]_vars =>
        [run.state = "apply_running" /\ run'.state = "needs_approval" =>
            (run.listed /\ run'.listed => run'.raw # run.raw)]_vars
  BY ReturnStep
<1> QED
  BY <1>1, InitRow, StepKeepsRow, PTL DEF Spec, OnlyDriftReturns

\* In a check, a host that pyinfra can examine and would change has the status
\* of one that changes.
LEMMA PreviewStatus ==
    ASSUME NEW f \in Fleet, NEW ops \in Orders(Op), NEW report, NEW logs, NEW order,
           ChecksOn(f, report, ops, logs, order),
           NEW h \in Host, f.condition[h] = "up", NEW op \in Op, f.need[h][op] # "no"
    PROVE  h \in With(Normalize(report), "change")
<1> DEFINE operations == Operations(report, h)
           results == {operation.result : operation \in Range(operations)}
<1>1. /\ ReportsOn(f, report, ops) /\ report.results = <<>>
      /\ h \notin Unreachable(report) /\ h \notin report.failed_hosts
  BY CheckUnreachable DEF ChecksOn, Complaints, Broken
<1>2. h \in Examined(f) /\ h \in Mentioned(Entry(f, op))
  <2>1. h \in Examined(f)
    BY DEF Examined
  <2> QED
    BY <2>1, EntryProperties
<1>3. h \in Keys(report)
  BY <1>1, <1>2, KeysProperties
<1>4. \A i \in DOMAIN operations :
        i \in DOMAIN ops /\ operations[i] = OperationOf(report, Entry(f, ops[i]), h)
  BY <1>1, OperationsDomain
<1>5. PICK i \in DOMAIN ops : ops[i] = op
  BY PlanProperties
<1>6. i \in DOMAIN operations
  BY <1>1, <1>2, <1>5, OperationsDomain
<1>7. operations[i].will_change
  BY <1>2, <1>4, <1>5, <1>6, OperationFields
<1>8. \A o : ResultOf(report, o, h) = NoResult
  BY <1>1 DEF ResultOf
<1>9. \A j \in DOMAIN operations : operations[j].result = NoResult
  BY <1>4, <1>8, PlanProperties, OperationFields
<1> HIDE DEF operations
<1>10. results = {NoResult}
  BY <1>6, <1>9 DEF Range
<1>11. \E operation \in Range(operations) : operation.will_change
  BY <1>6, <1>7 DEF Range
<1>12. "error" \notin results
  BY <1>10 DEF NoResult
<1>13. Status(report, h, operations) = "change"
  BY <1>1, <1>10, <1>11, <1>12 DEF Status
<1> QED
  BY <1>3, <1>13, NormalizeProperties DEF With, operations

LEMMA UnchangedVerdict ==
    ASSUME NEW f \in Fleet, NEW ops \in Orders(Op), NEW report, NEW logs, NEW order,
           ChecksOn(f, report, ops, logs, order),
           Verdict(report, Normalize(report)) = "unchanged"
    PROVE  /\ Pending(f) = {}
           /\ \A h \in Host : f.condition[h] \in {"up", "broken"}
<1>1. /\ With(Normalize(report), "change") = {}
      /\ With(Normalize(report), "unreachable") = {}
  BY DEF Verdict, Blocked
<1>2. ReportsOn(f, report, ops) /\ Unreachable(report) = Complaints(f)
  BY CheckUnreachable DEF ChecksOn
<1>3. Complaints(f) = {}
  <2> SUFFICES ASSUME NEW h \in Complaints(f) PROVE FALSE
    OBVIOUS
  <2>1. h \in Keys(report)
    BY <1>2, KeysProperties
  <2>2. Status(report, h, Operations(report, h)) = "unreachable"
    BY <1>2 DEF Status
  <2> QED
    BY <1>1, <2>1, <2>2, NormalizeProperties DEF With
<1>4. \A h \in Host : f.condition[h] \in {"up", "broken"}
  BY <1>3 DEF Complaints, Fleet, Condition
<1>5. \A h \in Examined(f) : h \in Host /\ f.condition[h] = "up"
  BY <1>4 DEF Examined
<1>6. \A h \in Examined(f), op \in Op : f.need[h][op] = "no"
  BY <1>1, <1>5, PreviewStatus
<1> QED
  BY <1>4, <1>6, PendingIs

\* Where no change is needed, a check gives no host the status of one.
LEMMA NoPreview ==
    ASSUME NEW f \in Fleet, NEW ops \in Orders(Op), NEW report, NEW logs, NEW order,
           ChecksOn(f, report, ops, logs, order), Pending(f) = {},
           NEW h \in Host
    PROVE  Status(report, h, Operations(report, h)) # "change"
<1> DEFINE operations == Operations(report, h)
<1>1. ReportsOn(f, report, ops) /\ report.results = <<>>
  BY DEF ChecksOn
<1>2. \A i \in DOMAIN operations :
        i \in DOMAIN ops /\ operations[i] = OperationOf(report, Entry(f, ops[i]), h)
  BY <1>1, OperationsDomain
<1>3. \A o : ResultOf(report, o, h) = NoResult
  BY <1>1 DEF ResultOf
<1>4. \A g \in Examined(f), op \in Op : f.need[g][op] = "no"
  BY PendingIs
<1>5. ASSUME NEW i \in DOMAIN operations
      PROVE  operations[i].result = NoResult /\ ~ operations[i].will_change
  <2>1. ops[i] \in Op /\ operations[i] = OperationOf(report, Entry(f, ops[i]), h)
    BY <1>2, PlanProperties
  <2>2. operations[i].result = NoResult
    BY <1>3, <2>1, OperationFields
  <2>3. ~ operations[i].will_change
    BY <1>4, <2>1, OperationFields
  <2> QED
    BY <2>2, <2>3
<1> HIDE DEF operations
<1>6. \A operation \in Range(operations) :
        operation.result = NoResult /\ ~ operation.will_change
  BY <1>5 DEF Range
<1>7. "success" \notin {operation.result : operation \in Range(operations)}
  BY <1>6 DEF NoResult
<1>8. Status(report, h, operations) # "change"
  BY <1>6, <1>7 DEF Status
<1> QED
  BY <1>8 DEF operations

\* The verdict of a check that listed the inventory is a function of the fleet:
\* neither the order of pyinfra's output, nor its exit code, nor which failed
\* hosts it names has a part in it.  The branch for a bad exit code without
\* hosts (runs/service.py:176) is never taken.
THEOREM VerdictIsOfTheFleet ==
    ASSUME NEW f \in Fleet, NEW report \in CheckReports(f), report # NoReport,
           report.inventory # {}
    PROVE  Verdict(report, Normalize(report)) =
               IF Pending(f) = {} /\ Complaints(f) = {} THEN "unchanged" ELSE "needs_approval"
<1> DEFINE document == Normalize(report)
<1>1. PICK ops \in Orders(Op) : \E logs, order : ChecksOn(f, report, ops, logs, order)
  BY CheckReportForm
<1>2. ReportsOn(f, report, ops) /\ Unreachable(report) = Complaints(f)
  BY <1>1, CheckUnreachable DEF ChecksOn
<1>3. /\ DOMAIN document = Keys(report)
      /\ Keys(report) \subseteq Host
      /\ report.inventory \subseteq Keys(report)
      /\ \A h \in Keys(report) :
            document[h].status = Status(report, h, Operations(report, h))
  BY <1>2, KeysProperties, NormalizeProperties
<1> HIDE DEF document
<1>4. document # <<>>
  <2>1. PICK h \in report.inventory : h \in DOMAIN document
    BY <1>3
  <2>2. DOMAIN <<>> = {}
    OBVIOUS
  <2> QED
    BY <2>1, <2>2
<1>5. Verdict(report, document) \in {"unchanged", "needs_approval"}
  BY <1>4 DEF Verdict
<1>6. ASSUME Verdict(report, document) = "unchanged"
      PROVE  Pending(f) = {} /\ Complaints(f) = {}
  <2>1. Pending(f) = {} /\ \A h \in Host : f.condition[h] \in {"up", "broken"}
    BY <1>1, <1>6, UnchangedVerdict DEF document
  <2> QED
    BY <2>1 DEF Complaints
<1>7. ASSUME Pending(f) = {}, Complaints(f) = {}
      PROVE  Verdict(report, document) = "unchanged"
  <2>1. With(document, "change") = {}
    BY <1>1, <1>3, <1>7, NoPreview DEF With
  <2>2. \A h : Status(report, h, Operations(report, h)) # "unreachable"
    BY <1>2, <1>7 DEF Status
  <2>3. With(document, "unreachable") = {}
    BY <1>3, <2>2 DEF With
  <2> QED
    BY <1>4, <2>1, <2>3 DEF Verdict, Blocked
<1> QED
  BY <1>5, <1>6, <1>7 DEF document

LEMMA UnchangedStep ==
    ASSUME RowInv, Next, run.state = "check_running", run'.state = "unchanged"
    PROVE  /\ Pending(fleet) = {}
           /\ \A h \in Host : fleet.condition[h] \in {"up", "broken"}
<1> USE DEF RowInv, Fields
<1>1. PICK report \in CheckReports(fleet) : CheckResult(report)
  <2>1. ~Drift /\ ~Approve /\ ~Dispatch /\ ~ApplyHasNoResult
    BY DEF Drift, Approve, Dispatch, ApplyHasNoResult
  <2>2. \A report, next : ~ApplyResult(report, next)
    BY DEF ApplyResult
  <2>3. \A report : ~ChangeSetMoved(report) /\ ~PrecheckFails(report) /\ ~Proceed(report)
    BY DEF ChangeSetMoved, PrecheckFails, Proceed
  <2> QED
    BY <2>1, <2>2, <2>3 DEF Next
<1>2. report # NoReport
  BY <1>1 DEF CheckResult
<1>3. run'.state = Verdict(report, Normalize(report))
  BY <1>1, <1>2 DEF CheckResult
<1>4. PICK ops \in Orders(Op) : \E logs, order : ChecksOn(fleet, report, ops, logs, order)
  BY <1>2, CheckReportForm DEF PlansTypeOK
<1> QED
  BY <1>3, <1>4, UnchangedVerdict DEF PlansTypeOK

\* A run that ends as unchanged left nothing to do on a host that pyinfra can
\* examine, and reached all but the broken ones (ingest_check_result 173-182).
THEOREM UnchangedClean == Spec => UnchangedIsClean
<1>1. RowInv /\ [Next]_vars =>
        [run.state = "check_running" /\ run'.state = "unchanged" =>
            /\ Pending(fleet) = {}
            /\ \A h \in Host : fleet.condition[h] \in {"up", "broken"}]_vars
  BY UnchangedStep
<1> QED
  BY <1>1, InitRow, StepKeepsRow, PTL DEF Spec, UnchangedIsClean

\* After an apply, a host that still needs a change was not reached or is failed.
LEMMA AppliedStatus ==
    ASSUME NEW f \in Fleet, NEW ops \in Orders(Op), NEW ending \in Endings(f), NEW code,
           NEW order \in Orders(Lost(f, ending)),
           NEW h \in Host, NEW op \in Op, After(f, ops, ending).need[h][op] # "no"
    PROVE  LET document == Normalize(ApplyReport(f, ops, order, ending, code))
           IN  h \in With(document, "unreachable") \cup With(document, "failed")
<1> DEFINE report == ApplyReport(f, ops, order, ending, code)
           operations == Operations(report, h)
<1>1. /\ report.failed_hosts = {g \in Host : ending[g] \in {"failed", "lost"}}
      /\ report.results = Results(f, ops, ending)
      /\ report.inventory = Host
      /\ report.plan = Plan(f, ops)
      /\ report.stderr = [k \in DOMAIN order |-> ErrorLine(order[k])]
  BY DEF ApplyReport, Report
<1> HIDE DEF report
<1>2. ReportsOn(f, report, ops)
  <2>1. Lost(f, ending) \subseteq Host
    BY DEF Lost, Complaints
  <2>2. IsFiniteSet(Lost(f, ending))
    BY <2>1, Hosts, FS_Subset
  <2>3. /\ Cardinality(Lost(f, ending)) \in Nat
        /\ DOMAIN order = 1..Cardinality(Lost(f, ending))
        /\ \A k \in DOMAIN order : order[k] \in Host
    BY <2>1, <2>2, OrderProperties
  <2>4. \A g \in Host : ErrorLine(g) \in Line
    BY PlansAssumption DEF ErrorLine, Line
  <2>5. report.stderr \in Seq(Line)
    BY <1>1, <2>3, <2>4, SeqDef
  <2> QED
    BY <1>1, <2>5 DEF ReportsOn
<1>3. h \in Keys(report)
  BY <1>1, <1>2, KeysProperties
<1>4. op \notin Done(f, ops, ending, h) /\ f.need[h][op] # "no"
  BY DEF After, Fleet
<1>5. CASE h \in Unreachable(report)
  <2>1. Status(report, h, operations) = "unreachable"
    BY <1>5 DEF Status
  <2> QED
    BY <1>3, <2>1, NormalizeProperties DEF With, report
<1>6. CASE h \notin Unreachable(report) /\ h \in report.failed_hosts
  <2>1. Status(report, h, operations) = "failed"
    BY <1>6 DEF Status
  <2> QED
    BY <1>3, <2>1, NormalizeProperties DEF With, report
<1>7. CASE h \notin Unreachable(report) /\ h \notin report.failed_hosts
  <2>1. ending[h] \in {"done", "ignored"}
    BY <1>1, <1>7 DEF Endings, Ending
  <2>2. op \in Needed(f, h)
    BY <1>4 DEF Needed
  <2>3. op \in Erred(f, ops, ending, h)
    BY <1>4, <2>1, <2>2 DEF Done
  <2>4. h \in Examined(f)
    BY <2>3 DEF Erred
  <2>5. ResultOf(report, op, h) = "error"
    <3>1. h \in report.results[op].error /\ op \in DOMAIN report.results
      BY <1>1, <2>3 DEF Results
    <3>2. h \notin report.results[op].no_change
      BY <1>1, <1>4 DEF Results
    <3> QED
      BY <3>1, <3>2 DEF ResultOf
  <2>6. PICK i \in DOMAIN ops : ops[i] = op
    BY PlanProperties
  <2>7. h \in Mentioned(Entry(f, op))
    BY <1>4, <2>4, EntryProperties
  <2>8. /\ i \in DOMAIN operations
        /\ operations[i] = OperationOf(report, Entry(f, op), h)
    BY <1>2, <2>6, <2>7, OperationsDomain
  <2>9. operations[i].result = "error"
    BY <2>5, <2>8, OperationFields
  <2> HIDE DEF operations
  <2>10. "error" \in {operation.result : operation \in Range(operations)}
    BY <2>8, <2>9 DEF Range
  <2>11. Status(report, h, operations) = "failed"
    BY <1>7, <2>10 DEF Status
  <2> QED
    BY <1>3, <2>11, NormalizeProperties DEF With, report, operations
<1> QED
  BY <1>5, <1>6, <1>7

LEMMA SuccessStep ==
    ASSUME RowInv, Next, run.state # "succeeded", run'.state = "succeeded"
    PROVE  \A h \in Host, op \in Op : fleet'.need[h][op] # "no" =>
            h \in DOMAIN run'.outcome /\ run'.outcome[h] = "unreachable"
<1> USE DEF RowInv, Fields
<1>1. PICK ops \in Orders(Op), ending \in Endings(fleet), code \in {0, 1} :
        \E order \in Orders(Lost(fleet, ending)) :
            ApplyResult(ApplyReport(fleet, ops, order, ending, code),
                        After(fleet, ops, ending))
  <2>1. ~Drift /\ ~Approve /\ ~Dispatch
    BY DEF Drift, Approve, Dispatch
  <2>2. ~ApplyHasNoResult
    BY DEF ApplyHasNoResult
  <2>3. \A report : ~ChangeSetMoved(report) /\ ~PrecheckFails(report) /\ ~Proceed(report)
    BY DEF ChangeSetMoved, PrecheckFails, Proceed
  <2>4. \A report : CheckResult(report) =>
            run'.state \in {"check_failed", "unchanged", "needs_approval"}
    BY DEF CheckResult, Verdict
  <2> QED
    BY <2>1, <2>2, <2>3, <2>4 DEF Next
<1>a. PICK order \in Orders(Lost(fleet, ending)) :
        ApplyResult(ApplyReport(fleet, ops, order, ending, code), After(fleet, ops, ending))
  BY <1>1
<1> DEFINE report == ApplyReport(fleet, ops, order, ending, code)
<1>2. /\ run'.outcome = [h \in DOMAIN Normalize(report) |-> Normalize(report)[h].status]
      /\ With(Normalize(report), "failed") = {}
      /\ fleet' = After(fleet, ops, ending)
  <2> HIDE DEF report
  <2> QED
    BY <1>a DEF ApplyResult, report
<1>3. fleet \in Fleet
  BY DEF PlansTypeOK
<1>4. ASSUME NEW h \in Host, NEW op \in Op, fleet'.need[h][op] # "no"
      PROVE  h \in With(Normalize(report), "unreachable")
  BY <1>2, <1>3, <1>4, AppliedStatus
<1> HIDE DEF report
<1>5. \A h : h \in With(Normalize(report), "unreachable") =>
        h \in DOMAIN run'.outcome /\ run'.outcome[h] = "unreachable"
  BY <1>2 DEF With
<1> QED
  BY <1>4, <1>5

\* A run that succeeded leaves a needed change only on hosts that it says it
\* could not reach (ingest_apply_result, the status in normalize).
THEOREM SuccessHides == Spec => SuccessHidesOnlyUnreachable
<1>1. RowInv /\ [Next]_vars =>
        [run.state # "succeeded" /\ run'.state = "succeeded" =>
            \A h \in Host, op \in Op : fleet'.need[h][op] # "no" =>
                h \in DOMAIN run'.outcome /\ run'.outcome[h] = "unreachable"]_vars
  BY SuccessStep
<1> QED
  BY <1>1, InitRow, StepKeepsRow, PTL DEF Spec, SuccessHidesOnlyUnreachable

=============================================================================
