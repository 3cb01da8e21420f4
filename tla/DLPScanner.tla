----------------------------- MODULE DLPScanner -----------------------------
(***************************************************************************)
(* services/dlp-scanner: findings of sensitive text in a message, their    *)
(* overlaps resolved, the text redacted, a risk level and tags derived;    *)
(* over REST and for every message of the subject ingress.>.               *)
(*                                                                         *)
(* A text is its length and the matches the patterns' expressions have in  *)
(* it; positions stand for characters.  Confidences are in hundredths.     *)
(* The scanner never suspends: a scan is one action.  The loop's awaits    *)
(* (publish, ack) are actions of their own.  The durable consumer has no   *)
(* limit on deliveries; MaxDlpDeliver bounds the model.                    *)
(***************************************************************************)
EXTENDS JetStream, SequencesExt

CONSTANTS
  Patterns,       \* 1..n in the order of the list
  CategoryOf, ConfidenceOf,
  TextLength,
  DlpMessages,    \* messages of ingress.>
  Dirty,          \* those with findings
  MaxDlpDeliver, MaxDlpFaults  \* bounds

ASSUME DlpAssumption ==
  /\ Patterns \subseteq Nat /\ IsFiniteSet(Patterns) /\ TextLength \in Nat /\ Dirty \subseteq DlpMessages
  /\ ConfidenceOf \in [Patterns -> 0..100]
  /\ MaxDlpDeliver \in Nat /\ MaxDlpFaults \in Nat

VARIABLES
  scan,       \* the last REST scan: its matches, findings and redacted text
  dlpJs,      \* the consumer dlp-scanner
  dlpTask,    \* _nats_subscribe: its place and message
  dlpResults  \* dlp.result messages, by message; what went wrong so far

dlpVars == <<scan, dlpJs, dlpTask, dlpResults>>

\* What finditer of each pattern yields in a text, here at most one match; for card
\* numbers also whether they pass the Luhn check.
NoMatch == [found |-> FALSE, start |-> 0, end |-> 0, luhn |-> FALSE]
Hits == {NoMatch} \cup [found : {TRUE}, start : 0..TextLength, end : 0..TextLength, luhn : BOOLEAN]
IsCard(p) == CategoryOf[p] = "credit_card"
Texts == {text \in [Patterns -> {h \in Hits : h.found => h.start < h.end}] :
            \A p \in Patterns : text[p].found /\ ~IsCard(p) => text[p].luhn}

-----------------------------------------------------------------------------
(* The scanner.                                                              *)

Finding(p, hit) ==
  [pattern |-> p, start |-> hit.start, end |-> hit.end, category |-> CategoryOf[p],
   confidence |-> IF IsCard(p) THEN 95 ELSE ConfidenceOf[p]]

\* A card number that fails the Luhn check is no finding.
Findings(text) ==
  {Finding(p, text[p]) : p \in {q \in Patterns : text[q].found /\ (text[q].luhn \/ ~IsCard(q))}}

\* Start ascending, then confidence descending; the sort is stable.
Before(f, g) ==
  \/ f.start < g.start
  \/ f.start = g.start /\ f.confidence > g.confidence
  \/ f.start = g.start /\ f.confidence = g.confidence /\ f.pattern < g.pattern

\* Mutant of Keep: findings that merely touch count as overlapping.
KeepMutant(kept, f) ==
  IF kept # <<>> /\ f.start <= Last(kept).end
  THEN IF f.confidence > Last(kept).confidence THEN Append(Front(kept), f) ELSE kept
  ELSE Append(kept, f)

\* The next finding is compared with the last one kept only.
Keep(kept, f) ==
  IF kept # <<>> /\ f.start < Last(kept).end
  THEN IF f.confidence > Last(kept).confidence THEN Append(Front(kept), f) ELSE kept
  ELSE Append(kept, f)

\* The findings sorted: at place k, the one that k - 1 others come before.
InOrder(findings) ==
  [k \in 1..Cardinality(findings) |->
     CHOOSE f \in findings : Cardinality({g \in findings : Before(g, f)}) = k - 1]

Deduplicate(findings) == FoldLeft(Keep, <<>>, InOrder(findings))

Critical == {"credential", "api_key", "ssn", "credit_card"}
High == {"secret", "jwt"}
Medium == {"email", "phone", "ip_address"}

\* The highest confidence of any category decides between the levels of a category.
RiskLevel(findings) ==
  LET has(cats) == \E f \in findings : f.category \in cats
      sure(c) == \E f \in findings : f.confidence >= c
  IN  CASE findings = {} -> "none"
        [] has(Critical) -> IF sure(90) THEN "critical" ELSE "high"
        [] ~has(Critical) /\ has(High) -> IF sure(85) THEN "high" ELSE "medium"
        [] ~has(Critical \cup High) /\ has(Medium) ->
             IF Cardinality(findings) > 2 THEN "medium" ELSE "low"
        [] OTHER -> "low"

Tags(findings) ==
  {f.category : f \in findings}
    \cup {tag \in {"pii", "secrets"} : \E f \in findings :
            f.category \in (IF tag = "pii" THEN Medium \cup {"ssn", "credit_card"}
                                           ELSE {"credential", "api_key"} \cup High)}

\* The characters of the text by position, the mask and the mark "[REDACTED]".
Text == [i \in 1..TextLength |-> i - 1]
Star == TextLength
Redacted == TextLength + 1

RedactOne(mode, f, chars) ==
  IF mode = "mask"
  THEN [i \in DOMAIN chars |-> IF f.start < i /\ i <= f.end THEN Star ELSE chars[i]]
  ELSE SubSeq(chars, 1, f.start) \o <<Redacted>> \o SubSeq(chars, f.end + 1, Len(chars))

\* From the last finding to the first, so that earlier positions stay valid.
Redact(kept, mode) == FoldRight(LAMBDA f, chars : RedactOne(mode, f, chars), kept, Text)

-----------------------------------------------------------------------------
(* POST /v1/scan, with redact_mode "mask" or "remove".                       *)

ScanContent(text, mode) ==
  LET kept == Deduplicate(Findings(text))
  IN  /\ scan' = <<[text |-> text, mode |-> mode, kept |-> kept,
                    redacted |-> Redact(kept, mode),
                    risk |-> RiskLevel(ToSet(kept)), tags |-> Tags(ToSet(kept))]>>
      /\ UNCHANGED <<dlpJs, dlpTask, dlpResults>>

-----------------------------------------------------------------------------
(* The loop over ingress.>.                                                  *)

DlpFault ==
  /\ dlpResults.faults < MaxDlpFaults
  /\ dlpResults' = [dlpResults EXCEPT !.faults = @ + 1]

TakeIngress(m) ==
  /\ dlpTask.pc = "wait" /\ Deliverable(dlpJs, m, MaxDlpDeliver)
  /\ dlpJs' = Delivered(dlpJs, m)
  /\ dlpTask' = [pc |-> IF m \in Dirty THEN "publish" ELSE "ack", msg |-> {m}]
  /\ UNCHANGED <<scan, dlpResults>>

PublishResult ==
  /\ dlpTask.pc = "publish"
  /\ dlpTask' = [dlpTask EXCEPT !.pc = "ack"]
  /\ dlpResults' = [dlpResults EXCEPT !.sent = [m \in DlpMessages |->
                      IF m \in dlpTask.msg THEN @[m] + 1 ELSE @[m]]]
  /\ UNCHANGED <<scan, dlpJs>>

\* The exception is logged and the message acknowledged: its result is lost.
PublishResultFails ==
  /\ dlpTask.pc = "publish" /\ DlpFault
  /\ dlpTask' = [dlpTask EXCEPT !.pc = "ack"]
  /\ UNCHANGED <<scan, dlpJs>>

AckIngress ==
  /\ dlpTask.pc = "ack"
  /\ \E m \in dlpTask.msg : dlpJs' = Acked(dlpJs, m)
  /\ dlpTask' = [pc |-> "wait", msg |-> {}]
  /\ UNCHANGED <<scan, dlpResults>>

\* ack raises in the finally: the loop is left, the task ends, readyz stays ok.
AckIngressFails ==
  /\ dlpTask.pc = "ack" /\ DlpFault
  /\ dlpTask' = [pc |-> "dead", msg |-> {}]
  /\ UNCHANGED <<scan, dlpJs>>

ExpireIngress(m) ==
  /\ dlpJs[m].st = "pending" /\ DlpFault
  /\ dlpJs' = Returned(dlpJs, m)
  /\ UNCHANGED <<scan, dlpTask>>

RestartDlp ==
  /\ DlpFault
  /\ dlpTask' = [pc |-> "wait", msg |-> {}] /\ scan' = <<>>
  /\ UNCHANGED dlpJs

DlpInit ==
  /\ scan = <<>>
  /\ dlpJs = [m \in DlpMessages |-> Stored]
  /\ dlpTask = [pc |-> "wait", msg |-> {}]
  /\ dlpResults = [sent |-> [m \in DlpMessages |-> 0], faults |-> 0]

ScanRequest ==
  /\ scan = <<>>
  /\ \E text \in Texts, mode \in {"mask", "remove"} : ScanContent(text, mode)

DlpLoop ==
  \/ \E m \in DlpMessages : TakeIngress(m) \/ ExpireIngress(m)
  \/ PublishResult \/ PublishResultFails \/ AckIngress \/ AckIngressFails \/ RestartDlp

\* The two share nothing but the patterns.
DlpNext == ScanRequest \/ DlpLoop

DlpSpec == DlpInit /\ [][DlpNext]_dlpVars

-----------------------------------------------------------------------------
DlpTypeOK ==
  /\ Len(scan) <= 1
  /\ dlpJs \in [DlpMessages -> Delivery]
  /\ dlpTask \in [pc : {"wait", "publish", "ack", "dead"}, msg : SUBSET DlpMessages]
  /\ dlpResults \in [sent : [DlpMessages -> Nat], faults : 0..MaxDlpFaults]

Overlap(f, g) == f.start < g.end /\ g.start < f.end

\* _deduplicate keeps findings that do not overlap, in order, and gives one up only for
\* another match at least as certain that overlaps it (which may be given up in turn).
OverlapsResolved(findings, kept) ==
  /\ \A i, j \in DOMAIN kept : i < j => kept[i].end <= kept[j].start
  /\ \A f \in findings \ ToSet(kept) :
       \E g \in findings \ {f} : Overlap(f, g) /\ g.confidence >= f.confidence

\* redact touches what the kept findings cover and nothing else: masks keep the length;
\* a removed span leaves one mark in its place, and the rest of the text its order.
Covers(findings, i) == \E f \in findings : f.start <= i /\ i < f.end
Marks(chars) == {i \in 1..Len(chars) : chars[i] = Redacted}
LeftIn(chars) == 1..Len(chars) \ Marks(chars)

Masked(chars, findings) ==
  /\ Len(chars) = TextLength
  /\ \A i \in 1..TextLength : chars[i] = IF Covers(findings, i - 1) THEN Star ELSE i - 1

Removed(chars, findings) ==
  /\ {chars[i] : i \in LeftIn(chars)} = {i \in 0..TextLength - 1 : ~Covers(findings, i)}
  /\ \A i, j \in LeftIn(chars) : i < j => chars[i] < chars[j]
  /\ \A f \in findings : \E m \in Marks(chars) : \A i \in LeftIn(chars) :
       IF i < m THEN chars[i] < f.start ELSE chars[i] >= f.end

RedactionExact(s) ==
  IF s.mode = "mask" THEN Masked(s.redacted, ToSet(s.kept))
  ELSE Removed(s.redacted, ToSet(s.kept)) /\ Cardinality(Marks(s.redacted)) = Len(s.kept)

\* No text that was found sensitive is reported harmless, and the findings and the
\* redacted text a client gets agree.
FindingsSound ==
  \A s \in ToSet(scan) :
    /\ OverlapsResolved(Findings(s.text), s.kept) /\ RedactionExact(s)
    /\ (s.risk = "none") = (Findings(s.text) = {})

\* A message of ingress.> that was acknowledged has its result published, but for the
\* faults; every result comes from a delivery.
ResultsExplained ==
  /\ Cardinality({m \in Dirty : dlpJs[m].st = "acked" /\ dlpResults.sent[m] = 0})
       <= dlpResults.faults
  /\ \A m \in DlpMessages : dlpResults.sent[m] <= dlpJs[m].count

\* What the scanner answers and publishes.
DlpSound == FindingsSound /\ ResultsExplained

=============================================================================
