------------------------------- MODULE Plans -------------------------------
(***************************************************************************)
(* What a run says about a fleet (plans/normalize.py), and what it decides  *)
(* from that: the verdict of a check, whether an apply goes on after its    *)
(* repeated check, and the verdict of the apply (the ingest_* functions of  *)
(* runs/service.py).  The states a run passes through, tokens and workers   *)
(* are RunService's; here is one run, with the documents.                   *)
(*                                                                         *)
(* pyinfra and the fleet are external.  pyinfra examines the fleet anew each *)
(* time and prints its operations in any order, and its diffs among its     *)
(* other lines; the fleet may change between any two steps.  A line of      *)
(* standard error stands for itself and for the lines behind it that        *)
(* normalize finds nothing in.  A digest stands for what it digests.  A     *)
(* list filtered from another is a function on the positions that pass, and *)
(* a sorted list is the bag of its elements: a function to their number.    *)
(***************************************************************************)
EXTENDS Naturals, Sequences, FiniteSets, Functions

CONSTANTS
    Names,          \* the host names, sorted
    Within,         \* per host name, the host names its text contains
    Op,             \* op_hash values
    Arg,            \* values of an operation's args
    Part,           \* what a diff prints from one line that _DIFF_START finds
                    \* to the next: a removed line "-- x" prints as "--- x"
    Git,            \* the parts that begin with "diff --git "; others with "--- "
    Plus,           \* the parts that contain "+++"; no other line does
    Anonymous,      \* the parts that name no host
    Text,           \* texts of a diff, as sequences of parts
    Log,            \* other lines that pyinfra prints
    LogNames,       \* the hosts each of them names
    First,          \* bound: what is true of the hosts when the run begins
    MaxDrifts       \* bound: changes of the fleet while the run is open

Host == Range(Names)

ASSUME PlansAssumption ==
    /\ Names \in Seq(Host)
    /\ IsInjective(Names)
    /\ Within \in [Host -> SUBSET Host]
    /\ \A h \in Host : h \in Within[h]
    /\ IsFiniteSet(Op)
    /\ Text \subseteq Seq(Part)
    /\ Git \subseteq Part /\ Plus \subseteq Part
    /\ IsFiniteSet(Log)
    /\ Part \cap Host = {} /\ Log \cap Host = {} /\ Log \cap Part = {}
    /\ LogNames \in [Log -> SUBSET Host]
    /\ MaxDrifts \in Nat
    /\ First \subseteq
        [need : [Host -> [Op -> {"no", "change", "maybe"}]], args : [Op -> Arg],
         condition : [Host -> {"up", "slow", "down", "broken"}],
         text : [Host -> Text \cup {<<>>}]]

VARIABLES
    fleet,          \* what is true of the hosts
    drifts,         \* how often the fleet has changed
    run,            \* the row of runs, of the apply's document the statuses; and
                    \* whether the check listed the inventory
    going           \* the runner was told to proceed with pyinfra --yes

vars == <<fleet, drifts, run, going>>

-----------------------------------------------------------------------------
(* pyinfra and the fleet.                                                  *)

\* What pyinfra would do to a host: nothing, a change, or a change that
\* depends on an earlier one.
Need == {"no", "change", "maybe"}

\* A slow host answers after pyinfra has complained about it; on a broken one
\* pyinfra connects but cannot examine.
Condition == {"up", "slow", "down", "broken"}

Fleet == [need : [Host -> [Op -> Need]], args : [Op -> Arg],
          condition : [Host -> Condition], text : [Host -> Text \cup {<<>>}]]

Examined(f) == {h \in Host : f.condition[h] \in {"up", "slow"}}

\* What would be done to the hosts pyinfra can examine.
Pending(f) ==
    {<<h, op, f.args[op], f.need[h][op]>> : h \in Examined(f), op \in Op}
        \ {<<h, op, f.args[op], "no">> : h \in Host, op \in Op}

\* A host with a change to make prints the parts of its diff.
Parts(f) ==
    UNION {{h} \X DOMAIN f.text[h] :
           h \in {g \in Examined(f) : \E op \in Op : f.need[g][op] # "no"}}

\* A line is its text and the hosts that it names; the text of a complaint
\* about a host is the host.
DiffLine(h, part) ==
    [text |-> part, names |-> IF part \in Anonymous THEN {} ELSE Within[h]]

ErrorLine(h) == [text |-> h, names |-> Within[h]]

LogLine(l) == [text |-> l, names |-> LogNames[l]]

Entry(f, op) ==
    [op_hash |-> op, args |-> f.args[op],
     hosts_with_change |-> {h \in Examined(f) : f.need[h][op] = "change"},
     hosts_with_conditional_change |-> {h \in Examined(f) : f.need[h][op] = "maybe"},
     hosts |-> Examined(f)]

\* Standard output, standard error and the exit code, and the hosts that
\* debug-inventory printed before.
Report(plan, results, failed, stderr, hosts, code) ==
    [plan |-> plan, results |-> results, failed_hosts |-> failed, stderr |-> stderr,
     inventory |-> hosts, exit_code |-> code]

\* pyinfra printed no JSON.
NoReport == [exit_code |-> 1]

Complaints(f) == {h \in Host : f.condition[h] \in {"slow", "down"}}

Broken(f) == {h \in Host : f.condition[h] = "broken"}

\* The sequences that list S without repetition.
Orders(S) == {list \in [1..Cardinality(S) -> S] : IsInjective(list)}

\* The parts of the diffs, the errors about hosts and the other lines, as <<host,
\* number of the part>>, <<host, 0>> and <<line, 0>>.
Printed(f, errors, logs) == Parts(f) \cup (errors \X {0}) \cup (logs \X {0})

LineOf(f, x) ==
    IF x[2] > 0 THEN DiffLine(x[1], f.text[x[1]][x[2]])
    ELSE IF x[1] \in Log THEN LogLine(x[1])
    ELSE ErrorLine(x[1])

\* The diff of a host is printed in one piece.
Outputs(f, errors, logs) ==
    {order \in Orders(Printed(f, errors, logs)) :
        \A k \in DOMAIN order : order[k][2] > 1 =>
            k > 1 /\ order[k-1] = <<order[k][1], order[k][2] - 1>>}

Stderrs(f, errors, logs) ==
    {[k \in DOMAIN order |-> LineOf(f, order[k])] : order \in Outputs(f, errors, logs)}

Plan(f, ops) == [i \in DOMAIN ops |-> Entry(f, ops[i])]

\* pyinfra --dry --diff --json: a check has no results.  debug-inventory may
\* have failed, and failed hosts may be left unsaid.
CheckReports(f) ==
    {NoReport} \cup
    {Report(plan, <<>>, failed, stderr, hosts, code) :
        plan \in {Plan(f, ops) : ops \in Orders(Op)},
        stderr \in UNION {Stderrs(f, Complaints(f), logs) : logs \in SUBSET Log},
        failed \in {{}, Broken(f)}, hosts \in {Host, {}}, code \in {0, 1}}

-----------------------------------------------------------------------------
(* normalize.                                                              *)

\* _unreachable_hosts.
Unreachable(report) == {line.text : line \in Range(report.stderr)} \cap Host

\* _diff_blocks.  A block goes from a line that _DIFF_START finds to the next
\* such line, or to the end, whatever stands between them.
Starts(stderr) == {i \in DOMAIN stderr : stderr[i].text \in Part}

End(stderr, i) ==
    CHOOSE j \in i..Len(stderr) :
        /\ (i+1)..j \cap Starts(stderr) = {}
        /\ j = Len(stderr) \/ j + 1 \in Starts(stderr)

Slice(stderr, i) == SubSeq(stderr, i, End(stderr, i))

BugKept(block) == \E i \in DOMAIN block : block[i].text \in Plus

Kept(block) == block[1].text \notin Git => \E i \in DOMAIN block : block[i].text \in Plus

Blocks(stderr) ==
    [i \in {j \in Starts(stderr) : Kept(Slice(stderr, j))} |-> Slice(stderr, i)]

Mentioned(entry) ==
    LET touched == entry.hosts_with_change \cup entry.hosts_with_conditional_change
    IN  IF touched # {} THEN touched ELSE entry.hosts

\* The dict of hosts, and the groups in which hosts are put there.
Groups(report) ==
    <<report.inventory>>
        \o [i \in DOMAIN report.stderr |-> {report.stderr[i].text} \cap Host]
        \o [i \in DOMAIN report.plan |-> Mentioned(report.plan[i])]
        \o <<report.failed_hosts>>

Keys(report) == UNION Range(Groups(report))

\* Of the first group that has any, the host that sorts first.
FirstKey(report) ==
    LET groups == Groups(report)
        first == CHOOSE i \in DOMAIN groups :
                    groups[i] # {} /\ \A j \in 1..i-1 : groups[j] = {}
    IN  Names[CHOOSE k \in DOMAIN Names :
                Names[k] \in groups[first] /\ \A l \in 1..k-1 : Names[l] \notin groups[first]]

NoResult == "none"

\* _results_index: the later list wins over the earlier one.
ResultOf(report, op, h) ==
    IF op \notin DOMAIN report.results THEN NoResult
    ELSE IF h \in report.results[op].no_change THEN "no_change"
    ELSE IF h \in report.results[op].error THEN "error"
    ELSE IF h \in report.results[op].success THEN "success"
    ELSE NoResult

OperationOf(report, entry, h) ==
    [op_hash |-> entry.op_hash, args_hash |-> entry.args,
     will_change |-> h \in entry.hosts_with_change
                        \cup entry.hosts_with_conditional_change,
     conditional |-> h \in entry.hosts_with_conditional_change,
     result |-> ResultOf(report, entry.op_hash, h)]

Operations(report, h) ==
    [i \in {j \in DOMAIN report.plan : h \in Mentioned(report.plan[j])} |->
        OperationOf(report, report.plan[i], h)]

NamesIn(block) == UNION {line.names : line \in Range(block)}

\* A block goes to every host that it names, or else to the first host.
Owners(report, block) ==
    LET named == NamesIn(block) \cap Keys(report)
    IN  IF named # {} THEN named ELSE {FirstKey(report)}

Diffs(report, h) ==
    LET blocks == Blocks(report.stderr)
    IN  [i \in {j \in DOMAIN blocks : h \in Owners(report, blocks[j])} |-> blocks[i]]

BugStatus(report, h, operations) ==
    LET results == {operation.result : operation \in Range(operations)}
    IN  IF h \in Unreachable(report) THEN "unreachable"
        ELSE IF h \in report.failed_hosts THEN "failed"
        ELSE IF \/ "success" \in results
                \/ /\ results = {NoResult}
                   /\ \E operation \in Range(operations) : operation.will_change
        THEN "change"
        ELSE "unchanged"

Status(report, h, operations) ==
    LET results == {operation.result : operation \in Range(operations)}
        preview == /\ \E operation \in Range(operations) : operation.will_change
                   /\ results = {NoResult}
    IN  IF h \in Unreachable(report) THEN "unreachable"
        ELSE IF h \in report.failed_hosts \/ "error" \in results THEN "failed"
        ELSE IF "success" \in results \/ preview THEN "change"
        ELSE "unchanged"

Normalize(report) ==
    [h \in Keys(report) |->
        LET operations == Operations(report, h)
        IN  [status |-> Status(report, h, operations),
             operations |-> operations, diffs |-> Diffs(report, h)]]

With(document, status) == {h \in DOMAIN document : document[h].status = status}

Blocked(document) == With(document, "unreachable") # {}

-----------------------------------------------------------------------------
(* fingerprint.                                                            *)

BagOf(list) == [x \in Range(list) |-> Cardinality({i \in DOMAIN list : list[i] = x})]

\* Where a document has changes and diffs: a host and a position.
ChangePlaces(document) ==
    UNION {{<<h, i>> : i \in {j \in DOMAIN document[h].operations :
                                document[h].operations[j].will_change}} :
           h \in DOMAIN document}

DiffPlaces(document) ==
    UNION {{<<h, i>> : i \in DOMAIN document[h].diffs} : h \in DOMAIN document}

Operation(document, place) == document[place[1]].operations[place[2]]

ChangesOf(document) ==
    [place \in ChangePlaces(document) |->
        LET operation == Operation(document, place)
        IN  <<place[1], operation.op_hash, operation.args_hash, operation.conditional>>]

DiffsOf(document) ==
    [place \in DiffPlaces(document) |-> <<place[1], document[place[1]].diffs[place[2]]>>]

\* The lists are not sorted.
BugFingerprint(document) ==
    [operations |-> ChangesOf(document), diffs |-> DiffsOf(document)]

Fingerprint(document) ==
    [operations |-> BagOf(ChangesOf(document)), diffs |-> BagOf(DiffsOf(document))]

-----------------------------------------------------------------------------
(* The run.                                                                *)

NoPrint == [none |-> TRUE]

Ended == {"check_failed", "unchanged", "apply_failed", "succeeded"}

\* What pyinfra found, which the row keeps as check_raw, and the blocks that it
\* printed, which are in the log of the check; in no order.
Finding(f, report) == [changes |-> Pending(f), blocks |-> BagOf(Blocks(report.stderr))]

Init ==
    /\ fleet \in First
    /\ drifts = 0
    /\ run = [state |-> "check_running", document |-> <<>>, fingerprint |-> NoPrint,
              raw |-> NoPrint, listed |-> FALSE, approved |-> NoPrint, outcome |-> <<>>]
    /\ going = FALSE

\* Something else changes a host, the network, or a file that a deploy reads.
Drift ==
    /\ drifts < MaxDrifts /\ run.state \notin Ended
    /\ drifts' = drifts + 1
    /\ \/ \E h \in Host, op \in Op, need \in Need : fleet' = [fleet EXCEPT !.need[h][op] = need]
       \/ \E op \in Op, arg \in Arg : fleet' = [fleet EXCEPT !.args[op] = arg]
       \/ \E h \in Host, c \in Condition : fleet' = [fleet EXCEPT !.condition[h] = c]
       \/ \E h \in Host, t \in Text \cup {<<>>} : fleet' = [fleet EXCEPT !.text[h] = t]
    /\ fleet' # fleet
    /\ UNCHANGED <<run, going>>

BugVerdict(report, document) ==
    IF report.inventory = {} \/ (report.exit_code # 0 /\ document = <<>>)
    THEN "check_failed"
    ELSE IF With(document, "change") = {} THEN "unchanged" ELSE "needs_approval"

\* ingest_check_result.
Verdict(report, document) ==
    IF report.inventory = {} \/ (report.exit_code # 0 /\ document = <<>>)
    THEN "check_failed"
    ELSE IF With(document, "change") = {} /\ ~Blocked(document)
    THEN "unchanged"
    ELSE "needs_approval"

CheckResult(report) ==
    /\ run.state = "check_running"
    /\ run' = IF report = NoReport THEN [run EXCEPT !.state = "check_failed"]
              ELSE LET document == Normalize(report)
                   IN  [run EXCEPT !.state = Verdict(report, document),
                                   !.document = document,
                                   !.fingerprint = Fingerprint(document),
                                   !.raw = Finding(fleet, report),
                                   !.listed = report.inventory # {}]
    /\ UNCHANGED <<fleet, drifts, going>>

Approve ==
    /\ run.state = "needs_approval"
    /\ ~Blocked(run.document)
    /\ run' = [run EXCEPT !.state = "approved", !.approved = run.fingerprint]
    /\ UNCHANGED <<fleet, drifts, going>>

\* The worker dispatches the apply and the runner starts.
Dispatch ==
    /\ run.state = "approved"
    /\ run' = [run EXCEPT !.state = "apply_running"]
    /\ UNCHANGED <<fleet, drifts, going>>

\* ingest_apply_precheck, of the check the apply starts with.
PrecheckFails(report) ==
    /\ run.state = "apply_running" /\ ~going
    /\ report.exit_code # 0
    /\ run' = [run EXCEPT !.state = "apply_failed"]
    /\ UNCHANGED <<fleet, drifts, going>>

BugChangeSetMoved(report) ==
    /\ run.state = "apply_running" /\ ~going
    /\ report.exit_code = 0
    /\ LET document == Normalize(report)
       IN  /\ Fingerprint(document) # run.approved
           /\ run' = [run EXCEPT !.state = "needs_approval", !.document = document,
                                 !.raw = Finding(fleet, report),
                                 !.listed = report.inventory # {},
                                 !.approved = NoPrint]
    /\ UNCHANGED <<fleet, drifts, going>>

ChangeSetMoved(report) ==
    /\ run.state = "apply_running" /\ ~going
    /\ report.exit_code = 0
    /\ LET document == Normalize(report)
       IN  /\ Fingerprint(document) # run.approved
           /\ run' = [run EXCEPT !.state = "needs_approval",
                                 !.document = document,
                                 !.fingerprint = Fingerprint(document),
                                 !.raw = Finding(fleet, report),
                                 !.listed = report.inventory # {},
                                 !.approved = NoPrint]
    /\ UNCHANGED <<fleet, drifts, going>>

Proceed(report) ==
    /\ run.state = "apply_running" /\ ~going
    /\ report.exit_code = 0
    /\ Fingerprint(Normalize(report)) = run.approved
    /\ going' = TRUE
    /\ UNCHANGED <<fleet, drifts, run>>

\* How pyinfra --yes ends for a host.  An operation that fails with
\* _ignore_errors does not fail the host.
Ending == {"done", "ignored", "failed", "lost"}

Endings(f) ==
    {ending \in [Host -> Ending] :
        \A h \in Host : /\ f.condition[h] = "down" => ending[h] = "lost"
                       /\ f.condition[h] = "broken" => ending[h] \in {"failed", "lost"}}

Needed(f, h) == {op \in Op : f.need[h][op] # "no"}

\* The first operation that a host needs.
Erred(f, ops, ending, h) ==
    {ops[i] : i \in {j \in DOMAIN ops : /\ ending[h] \in {"ignored", "failed"}
                                       /\ h \in Examined(f)
                                       /\ ops[j] \in Needed(f, h)
                                       /\ \A k \in 1..j-1 : ops[k] \notin Needed(f, h)}}

Done(f, ops, ending, h) ==
    IF ending[h] \in {"done", "ignored"}
    THEN Needed(f, h) \ Erred(f, ops, ending, h)
    ELSE {}

\* A conditional change turns out not to be one.
Results(f, ops, ending) ==
    [op \in Op |->
        [success |-> {h \in Host : op \in Done(f, ops, ending, h) /\ f.need[h][op] = "change"},
         error |-> {h \in Host : op \in Erred(f, ops, ending, h)},
         no_change |-> {h \in Host :
            \/ /\ f.need[h][op] = "no"
               /\ ending[h] \in {"done", "ignored"}
            \/ /\ f.need[h][op] = "maybe"
               /\ op \in Done(f, ops, ending, h)}]]

After(f, ops, ending) ==
    [f EXCEPT !.need = [h \in Host |-> [op \in Op |->
        IF op \in Done(f, ops, ending, h) THEN "no" ELSE f.need[h][op]]]]

\* The hosts that pyinfra has complained about in the end.
Lost(f, ending) == Complaints(f) \cup {h \in Host : ending[h] = "lost"}

\* What else it prints has no part in the statuses, which are all that is kept
\* of the result.
ApplyReport(f, ops, order, ending, code) ==
    Report(Plan(f, ops), Results(f, ops, ending),
           {h \in Host : ending[h] \in {"failed", "lost"}},
           [k \in DOMAIN order |-> ErrorLine(order[k])], Host, code)

\* ingest_apply_result.
ApplyResult(report, next) ==
    /\ run.state = "apply_running" /\ going
    /\ LET document == Normalize(report)
       IN  run' = [run EXCEPT !.state = IF report.exit_code # 0 \/ With(document, "failed") # {}
                                        THEN "apply_failed"
                                        ELSE "succeeded",
                              !.outcome = [h \in DOMAIN document |-> document[h].status]]
    /\ going' = FALSE
    /\ fleet' = next
    /\ UNCHANGED drifts

ApplyHasNoResult ==
    /\ run.state = "apply_running" /\ going
    /\ run' = [run EXCEPT !.state = "apply_failed"]
    /\ going' = FALSE
    /\ UNCHANGED <<fleet, drifts>>

\* A runner has pyinfra examine the fleet.
Examining == run.state = "check_running" \/ (run.state = "apply_running" /\ ~going)

Next ==
    \/ Drift
    \/ /\ Examining
       /\ \E report \in CheckReports(fleet) :
            \/ CheckResult(report)
            \/ PrecheckFails(report)
            \/ ChangeSetMoved(report)
            \/ Proceed(report)
    \/ Approve
    \/ Dispatch
    \/ /\ going
       /\ \E ending \in Endings(fleet), ops \in Orders(Op), code \in {0, 1} :
            \E order \in Orders(Lost(fleet, ending)) :
                ApplyResult(ApplyReport(fleet, ops, order, ending, code),
                            After(fleet, ops, ending))
    \/ ApplyHasNoResult

Spec == Init /\ [][Next]_vars

-----------------------------------------------------------------------------
\* The row holds a document and a fingerprint that belong together, an apply
\* has an approval, and an approved plan blocks nothing (runs/service.py
\* 164-171, 219-238, approve_run).
PlansTypeOK ==
    /\ fleet \in Fleet
    /\ drifts \in 0..MaxDrifts
    /\ going \in BOOLEAN
    /\ going => run.state = "apply_running"
    /\ run.document # <<>> => run.fingerprint = Fingerprint(run.document)
    /\ run.state \in {"approved", "apply_running", "succeeded"} =>
        run.approved = run.fingerprint /\ ~Blocked(run.document)

\* What the approver was shown: the changes of a document, and the line that
\* each of its blocks begins with.
Shown(document) ==
    [changes |-> {LET operation == Operation(document, place)
                  IN  <<place[1], operation.op_hash, operation.args_hash,
                        IF operation.conditional THEN "maybe" ELSE "change">> :
                  place \in ChangePlaces(document)},
     diffs |-> {document[place[1]].diffs[place[2]][1] : place \in DiffPlaces(document)}]

\* The same of the fleet itself, but for the parts of diffs that begin with a
\* removed line "-- x" and add no line "++ y": these _diff_blocks takes for a
\* diff that is none.
Truth(f) ==
    [changes |-> Pending(f),
     diffs |-> {DiffLine(x[1], f.text[x[1]][x[2]]) :
                x \in {y \in Parts(f) : f.text[y[1]][y[2]] \in Git \cup Plus}}]

\* An apply goes on only while the fleet needs exactly the changes, with the
\* arguments and the diffs, that the approver was shown (README.md:13,
\* ingest_apply_precheck), however the fleet changed and changed back, and
\* whatever pyinfra prints between the diffs.  Of a diff this is what stands in
\* front of the first removed line "-- x"; the rest may be anything
\* (normalize.py:177).
OnlyTheReviewedIsApplied ==
    [][~going /\ going' => Truth(fleet) = Shown(run.document)]_vars

\* An apply is sent back to review only when the fleet has moved, or pyinfra
\* has printed other lines behind one of its diffs: it may list operations and
\* blocks in another order, complain in front of them, and name a host as
\* unreachable and reach it after all (the sort in fingerprint), if it lists
\* the inventory each time.
OnlyDriftReturns ==
    [][run.state = "apply_running" /\ run'.state = "needs_approval" =>
        (run.listed /\ run'.listed => run'.raw # run.raw)]_vars

\* A run ends as unchanged only if every host that pyinfra can examine was
\* reached and needs nothing (ingest_check_result 179-180).  A host that it
\* cannot examine may hide behind the verdict, whatever the exit code.
UnchangedIsClean ==
    [][run.state = "check_running" /\ run'.state = "unchanged" =>
        /\ Pending(fleet) = {}
        /\ \A h \in Host : fleet.condition[h] \in {"up", "broken"}]_vars

\* A run that succeeded leaves a needed change only on hosts that it says it
\* could not reach (ingest_apply_result, the status in normalize).
SuccessHidesOnlyUnreachable ==
    [][run.state # "succeeded" /\ run'.state = "succeeded" =>
        \A h \in Host, op \in Op : fleet'.need[h][op] # "no" =>
            h \in DOMAIN run'.outcome /\ run'.outcome[h] = "unreachable"]_vars
=============================================================================
