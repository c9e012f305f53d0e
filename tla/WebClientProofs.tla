-------------------------- MODULE WebClientProofs ---------------------------
(***************************************************************************)
(* Proofs about the pages of the web client: the safety of the intake      *)
(* page, of user administration and of the review queue, for any sources   *)
(* and templates, users, pairs and forms, and any number of requests.      *)
(***************************************************************************)
EXTENDS WebClient, FiniteSetTheorems, SequenceTheorems, WellFoundedInduction, TLAPS

-----------------------------------------------------------------------------
(* Lemmas                                                                  *)

(* A set that does not have two elements has at most one.                  *)
LEMMA AtMostOne ==
  ASSUME NEW S, \A x, y \in S : x = y
  PROVE  Cardinality(S) <= 1
<1>1. CASE S = {}
  BY <1>1, FS_EmptySet
<1>2. CASE S # {}
  <2>1. PICK x \in S : TRUE
    BY <1>2
  <2>2. S = {x}
    BY <2>1
  <2>3. QED
    BY <2>2, FS_Singleton
<1>3. QED
  BY <1>1, <1>2

(* A function on 1..n is a sequence of length n.                           *)
LEMMA FunctionIsSeq ==
  ASSUME NEW S, NEW n \in Nat, NEW f \in [1..n -> S]
  PROVE  f \in Seq(S) /\ Len(f) = n
<1>1. f \in Seq(S)
  BY SeqDef
<1>2. PICK m \in Nat : m = Len(f) /\ DOMAIN f = 1..m
  BY <1>1, LenProperties
<1>3. 1..m = 1..n
  BY <1>2
<1>4. m = n
  <2>1. m \in 1..m <=> m \in 1..n
    BY <1>3
  <2>2. n \in 1..n <=> n \in 1..m
    BY <1>3
  <2>3. QED
    BY <2>1, <2>2
<1>5. QED
  BY <1>1, <1>2, <1>4

(* A sequence without its i-th element holds what it held, in that order.  *)
LEMMA Removed ==
  ASSUME NEW S, NEW s \in Seq(S), NEW i \in 1..Len(s)
  PROVE  LET t == SubSeq(s, 1, i - 1) \o SubSeq(s, i + 1, Len(s)) IN
         /\ t \in Seq(S) /\ Len(t) = Len(s) - 1
         /\ \A j \in 1..Len(t) : t[j] = IF j < i THEN s[j] ELSE s[j + 1]
         /\ \A j \in 1..Len(t) : \E k \in 1..Len(s) : t[j] = s[k]
<1> SUFFICES ASSUME NEW t, t = SubSeq(s, 1, i - 1) \o SubSeq(s, i + 1, Len(s))
             PROVE  /\ t \in Seq(S) /\ Len(t) = Len(s) - 1
                    /\ \A j \in 1..Len(t) : t[j] = IF j < i THEN s[j] ELSE s[j + 1]
                    /\ \A j \in 1..Len(t) : \E k \in 1..Len(s) : t[j] = s[k]
  OBVIOUS
<1>1. PICK n \in Nat : n = Len(s)
  BY LenProperties
<1>2. i \in Nat /\ 1 <= i /\ i <= n
  BY <1>1
<1>3. (\A j \in 1..(i - 1) : s[j] \in S) /\ (\A j \in (i + 1)..n : s[j] \in S)
  <2>1. \A j \in 1..n : s[j] \in S
    BY <1>1, ElementOfSeq
  <2>2. QED
    BY <1>2, <2>1
<1>4. PICK a : a = SubSeq(s, 1, i - 1)
  OBVIOUS
<1>5. a \in Seq(S) /\ Len(a) = i - 1 /\ \A j \in 1..(i - 1) : a[j] = s[j]
  <2>1. i - 1 \in Int /\ 1 \in Int
    BY <1>2
  <2>2. /\ a \in Seq(S)
        /\ Len(a) = IF 1 <= i - 1 THEN (i - 1) - 1 + 1 ELSE 0
        /\ \A j \in 1..((i - 1) - 1 + 1) : a[j] = s[1 + j - 1]
    BY <1>3, <1>4, <2>1, SubSeqProperties
  <2>3. ASSUME NEW j \in 1..(i - 1) PROVE a[j] = s[j]
    <3>1. j \in 1..((i - 1) - 1 + 1) /\ 1 + j - 1 = j
      BY <1>2
    <3>2. a[j] = s[1 + j - 1]
      BY <2>2, <3>1
    <3>3. QED
      BY <3>1, <3>2
  <2>4. Len(a) = i - 1
    BY <1>2, <2>2
  <2>5. QED
    BY <2>2, <2>3, <2>4
<1>6. PICK b : b = SubSeq(s, i + 1, n)
  OBVIOUS
<1>7. b \in Seq(S) /\ Len(b) = n - i /\ \A j \in 1..(n - i) : b[j] = s[i + j]
  <2>1. i + 1 \in Int /\ n \in Int
    BY <1>2
  <2>2. /\ b \in Seq(S)
        /\ Len(b) = IF i + 1 <= n THEN n - (i + 1) + 1 ELSE 0
        /\ \A j \in 1..(n - (i + 1) + 1) : b[j] = s[(i + 1) + j - 1]
    BY <1>3, <1>6, <2>1, SubSeqProperties
  <2>3. ASSUME NEW j \in 1..(n - i) PROVE b[j] = s[i + j]
    <3>1. j \in 1..(n - (i + 1) + 1) /\ (i + 1) + j - 1 = i + j
      BY <1>2
    <3>2. b[j] = s[(i + 1) + j - 1]
      BY <2>2, <3>1
    <3>3. QED
      BY <3>1, <3>2
  <2>4. Len(b) = n - i
    BY <1>2, <2>2
  <2>5. QED
    BY <2>2, <2>3, <2>4
<1>8. /\ t \in Seq(S) /\ Len(t) = n - 1
      /\ \A j \in 1..(n - 1) : t[j] = IF j <= i - 1 THEN a[j] ELSE b[j - (i - 1)]
  <2>1. t = a \o b
    BY <1>1, <1>4, <1>6
  <2>. a \in Seq(S) /\ b \in Seq(S)
    BY <1>5, <1>7
  <2>2. /\ a \o b \in Seq(S) /\ Len(a \o b) = Len(a) + Len(b)
        /\ \A j \in 1..(Len(a) + Len(b)) : (a \o b)[j] = IF j <= Len(a) THEN a[j] ELSE b[j - Len(a)]
    BY ConcatProperties
  <2>3. Len(a) + Len(b) = n - 1 /\ Len(a) = i - 1
    BY <1>2, <1>5, <1>7
  <2>4. QED
    BY <2>1, <2>2, <2>3
<1>9. ASSUME NEW j \in 1..(n - 1)
      PROVE  /\ t[j] = IF j < i THEN s[j] ELSE s[j + 1]
             /\ \E k \in 1..n : t[j] = s[k]
  <2>1. CASE j < i
    <3>1. j <= i - 1 /\ j \in 1..(i - 1) /\ j \in 1..n
      BY <1>2, <2>1
    <3>2. t[j] = s[j]
      BY <1>5, <1>8, <3>1
    <3>3. QED
      BY <2>1, <3>1, <3>2
  <2>2. CASE ~(j < i)
    <3>1. ~(j <= i - 1) /\ j + 1 \in 1..n
      BY <1>2, <2>2
    <3>2. PICK m \in 1..(n - i) : m = j - (i - 1) /\ i + m = j + 1
      BY <1>2, <2>2
    <3>3. t[j] = b[m] /\ b[m] = s[i + m]
      BY <1>7, <1>8, <3>1, <3>2
    <3>4. QED
      BY <2>2, <3>1, <3>2, <3>3
  <2>3. QED
    BY <2>1, <2>2
<1>10. QED
  BY <1>1, <1>8, <1>9

-----------------------------------------------------------------------------
(* The upload form and the runs: the inductive invariant                   *)

Templates == ObjectTemplates \cup EdgeTemplates
FormFields == [kind : {"object", "edge"}, source : Sources \cup {None},
               template : ObjectTemplates \cup {None}, edgeTemplate : EdgeTemplates \cup {None},
               file : Nat \cup {None}]
Uploads == [source : Sources, template : Templates, pick : Nat, at : {"sent", "created"}, run : Nat]
IngestedRuns == [source : Sources, template : Templates, pick : Nat, over : BOOLEAN,
                 answer : {"none", "arrived", "lost"}]

IntakeTypes ==
  /\ form \in FormFields /\ picks \in Nat
  /\ upload \in Uploads \cup {None}
  /\ runs \in Seq(IngestedRuns)

(* The form, the upload under way and every run name a source and one of   *)
(* that source's templates.                                                *)
TemplatesFit ==
  /\ form.template # None => SourceOf[form.template] = form.source
  /\ form.edgeTemplate # None => SourceOf[form.edgeTemplate] = form.source
  /\ upload # None => SourceOf[upload.template] = upload.source
  /\ \A r \in 1..Len(runs) : SourceOf[runs[r].template] = runs[r].source

Unused(k) == \A r \in 1..Len(runs) : runs[r].pick = k => runs[r].answer = "lost"

(* A pick that is still on the form has no run but lost ones, or is the    *)
(* one whose upload is under way, and that one gets its run once.          *)
PicksUsedOnce ==
  /\ form.file # None => form.file <= picks
  /\ upload # None => upload.pick <= picks
  /\ \A r \in 1..Len(runs) : runs[r].pick <= picks
  /\ \A r, s \in 1..Len(runs) :
       runs[r].pick = runs[s].pick /\ runs[r].answer # "lost" /\ runs[s].answer # "lost" => r = s
  /\ form.file # None => Unused(form.file) \/ (upload # None /\ upload.pick = form.file)
  /\ upload # None /\ upload.at = "sent" => Unused(upload.pick)
  /\ upload # None /\ upload.at = "created" =>
       /\ upload.run \in 1..Len(runs)
       /\ runs[upload.run].pick = upload.pick /\ runs[upload.run].answer = "none"

IntakeInv == IntakeTypes /\ TemplatesFit /\ PicksUsedOnce

LEMMA NoneIsNoUpload == None \notin Uploads
BY IntakeAssumption DEF Uploads, Templates

LEMMA RunAt ==
  ASSUME IntakeInv, NEW r \in 1..Len(runs)
  PROVE  runs[r] \in IngestedRuns
<1>1. runs \in Seq(IngestedRuns)
  BY DEF IntakeInv, IntakeTypes
<1>2. QED
  BY <1>1, ElementOfSeq

-----------------------------------------------------------------------------
(* The upload form preserves it                                            *)

(* A step that changes the form's fields, or puts a new file on it.        *)
LEMMA FormStep ==
  ASSUME IntakeInv, form' \in FormFields, UNCHANGED <<upload, runs>>,
         form'.template # None => SourceOf[form'.template] = form'.source,
         form'.edgeTemplate # None => SourceOf[form'.edgeTemplate] = form'.source,
         \/ form'.file = form.file /\ picks' = picks
         \/ form'.file = picks' /\ picks' = picks + 1
  PROVE  IntakeInv'
<1>1. /\ picks \in Nat /\ upload \in Uploads \cup {None} /\ runs \in Seq(IngestedRuns)
      /\ TemplatesFit /\ PicksUsedOnce
  BY DEF IntakeInv, IntakeTypes
<1>2. IntakeTypes'
  BY <1>1 DEF IntakeTypes
<1>3. TemplatesFit'
  BY <1>1 DEF TemplatesFit
<1>4. CASE form'.file = form.file /\ picks' = picks
  <2>1. PicksUsedOnce'
    BY <1>1, <1>4 DEF PicksUsedOnce, Unused
  <2>2. QED
    BY <1>2, <1>3, <2>1 DEF IntakeInv
<1>5. CASE form'.file = picks' /\ picks' = picks + 1
  <2>1. \A r \in 1..Len(runs) : runs[r].pick \in Nat /\ runs[r].pick <= picks
    BY <1>1, RunAt DEF PicksUsedOnce, IngestedRuns
  <2>2. (upload # None => upload.pick \in Nat /\ upload.pick <= picks)
    BY <1>1 DEF PicksUsedOnce, Uploads
  <2>3. \A r \in 1..Len(runs) : runs[r].pick # form'.file /\ runs[r].pick <= picks'
    BY <1>1, <1>5, <2>1
  <2>4. PicksUsedOnce'
    BY <1>1, <1>5, <2>2, <2>3 DEF PicksUsedOnce, Unused
  <2>5. QED
    BY <1>2, <1>3, <2>4 DEF IntakeInv
<1>6. QED
  BY <1>4, <1>5

LEMMA FormInv ==
  ASSUME IntakeInv,
         \/ \E kind \in {"object", "edge"} : ChooseKind(kind)
         \/ \E source \in Sources \cup {None} : ChooseSource(source)
         \/ \E t \in Templates \cup {None} : ChooseTemplate(t)
         \/ PickFile
  PROVE  IntakeInv'
<1>1. /\ form \in FormFields /\ picks \in Nat
      /\ form.template # None => SourceOf[form.template] = form.source
      /\ form.edgeTemplate # None => SourceOf[form.edgeTemplate] = form.source
  BY DEF IntakeInv, IntakeTypes, TemplatesFit
<1>2. ASSUME NEW kind \in {"object", "edge"}, ChooseKind(kind)
      PROVE  IntakeInv'
  <2>1. /\ \/ form' = [form EXCEPT !.kind = kind, !.edgeTemplate = None]
           \/ form' = [form EXCEPT !.kind = kind, !.template = None]
        /\ UNCHANGED <<upload, runs, picks>>
    BY <1>2 DEF ChooseKind
  <2>2. /\ form' \in FormFields /\ form'.source = form.source /\ form'.file = form.file
        /\ form'.template \in {form.template, None}
        /\ form'.edgeTemplate \in {form.edgeTemplate, None}
    BY <1>1, <2>1 DEF FormFields
  <2>3. QED
    BY <1>1, <2>1, <2>2, FormStep
<1>3. ASSUME NEW source \in Sources \cup {None}, ChooseSource(source)
      PROVE  IntakeInv'
  <2>1. /\ form' = [form EXCEPT !.source = source, !.template = None, !.edgeTemplate = None]
        /\ UNCHANGED <<upload, runs, picks>>
    BY <1>3 DEF ChooseSource
  <2>2. /\ form' \in FormFields /\ form'.file = form.file
        /\ form'.template = None /\ form'.edgeTemplate = None
    BY <1>1, <2>1 DEF FormFields
  <2>3. QED
    BY <2>1, <2>2, FormStep
<1>4. ASSUME NEW t \in Templates \cup {None}, ChooseTemplate(t)
      PROVE  IntakeInv'
  <2>1. /\ t # None => t \in OfKind(form.kind) /\ SourceOf[t] = form.source
        /\ form' = IF form.kind = "object" THEN [form EXCEPT !.template = t]
                                           ELSE [form EXCEPT !.edgeTemplate = t]
        /\ UNCHANGED <<upload, runs, picks>>
    BY <1>4 DEF ChooseTemplate
  <2>2. CASE form.kind = "object"
    <3>1. t \in ObjectTemplates \cup {None} /\ form' = [form EXCEPT !.template = t]
      BY <2>1, <2>2 DEF OfKind
    <3>2. /\ form' \in FormFields /\ form'.source = form.source /\ form'.file = form.file
          /\ form'.template = t /\ form'.edgeTemplate = form.edgeTemplate
      BY <1>1, <3>1 DEF FormFields
    <3>3. QED
      BY <1>1, <2>1, <3>2, FormStep
  <2>3. CASE form.kind # "object"
    <3>1. t \in EdgeTemplates \cup {None} /\ form' = [form EXCEPT !.edgeTemplate = t]
      BY <2>1, <2>3 DEF OfKind
    <3>2. /\ form' \in FormFields /\ form'.source = form.source /\ form'.file = form.file
          /\ form'.template = form.template /\ form'.edgeTemplate = t
      BY <1>1, <3>1 DEF FormFields
    <3>3. QED
      BY <1>1, <2>1, <3>2, FormStep
  <2>4. QED
    BY <2>2, <2>3
<1>5. ASSUME PickFile
      PROVE  IntakeInv'
  <2>1. /\ picks' = picks + 1 /\ picks' \in Nat /\ UNCHANGED <<upload, runs>>
        /\ form' = [form EXCEPT !.file = picks']
    BY <1>1, <1>5 DEF PickFile
  <2>2. /\ form' \in FormFields /\ form'.source = form.source /\ form'.file = picks'
        /\ form'.template = form.template /\ form'.edgeTemplate = form.edgeTemplate
    BY <1>1, <2>1 DEF FormFields
  <2>3. QED
    BY <1>1, <2>1, <2>2, FormStep
<1>6. QED
  BY <1>2, <1>3, <1>4, <1>5

-----------------------------------------------------------------------------
(* So do uploads and runs                                                  *)

LEMMA IngestInv ==
  ASSUME IntakeInv, Ingest
  PROVE  IntakeInv'
<1>1. /\ form \in FormFields /\ TemplatesFit /\ PicksUsedOnce /\ upload = None
      /\ form.file # None /\ form.source # None /\ Template # None
      /\ upload' = [source |-> form.source, template |-> Template, pick |-> form.file,
                    at |-> "sent", run |-> 0]
      /\ UNCHANGED <<form, picks, runs>>
  BY DEF IntakeInv, IntakeTypes, Ingest
<1>2. Template \in Templates /\ SourceOf[Template] = form.source
  BY <1>1 DEF Template, Templates, FormFields, TemplatesFit
<1>3. /\ upload' \in Uploads /\ upload'.template = Template /\ upload'.source = form.source
      /\ upload'.pick = form.file /\ upload'.at = "sent"
  BY <1>1, <1>2 DEF Uploads, FormFields
<1>4. IntakeTypes'
  BY <1>1, <1>3 DEF IntakeInv, IntakeTypes
<1>5. TemplatesFit'
  BY <1>1, <1>2, <1>3 DEF TemplatesFit
<1>6. PicksUsedOnce'
  BY <1>1, <1>3 DEF PicksUsedOnce, Unused
<1>7. QED
  BY <1>4, <1>5, <1>6 DEF IntakeInv

LEMMA RunCreatedInv ==
  ASSUME IntakeInv, RunCreated
  PROVE  IntakeInv'
<1> DEFINE run == [source |-> upload.source, template |-> upload.template,
                   pick |-> upload.pick, over |-> FALSE, answer |-> "none"]
<1>1. /\ IntakeTypes /\ TemplatesFit /\ PicksUsedOnce /\ upload # None /\ upload.at = "sent"
      /\ runs' = Append(runs, run) /\ UNCHANGED <<form, picks>>
      /\ upload' = [upload EXCEPT !.at = "created", !.run = Len(runs')]
  BY DEF IntakeInv, RunCreated
<1>2. upload \in Uploads /\ runs \in Seq(IngestedRuns)
  BY <1>1 DEF IntakeTypes
<1>3. run \in IngestedRuns
  BY <1>2 DEF Uploads, IngestedRuns
<1>4. /\ runs' \in Seq(IngestedRuns) /\ Len(runs') = Len(runs) + 1 /\ Len(runs) \in Nat
      /\ \A r \in 1..Len(runs) : runs'[r] = runs[r]
      /\ runs'[Len(runs) + 1] = run
  BY <1>1, <1>2, <1>3, AppendProperties, LenProperties
<1>5. \A r \in 1..Len(runs') :
        \/ r \in 1..Len(runs) /\ runs'[r] = runs[r] /\ r # Len(runs')
        \/ r = Len(runs') /\ runs'[r] = run
  BY <1>4
<1>6. /\ upload' \in Uploads /\ upload'.at = "created" /\ upload'.run = Len(runs')
      /\ upload'.pick = upload.pick /\ upload'.template = upload.template
      /\ upload'.source = upload.source
  <2>1. PICK n \in Nat : n = Len(runs')
    BY <1>4
  <2>2. upload' = [upload EXCEPT !.at = "created", !.run = n]
    BY <1>1, <2>1
  <2>3. QED
    BY <1>2, <2>1, <2>2 DEF Uploads
<1>7. /\ run.template = upload.template /\ run.source = upload.source
      /\ run.pick = upload.pick /\ run.answer = "none"
  OBVIOUS
<1> HIDE DEF run
<1>8. IntakeTypes'
  BY <1>1, <1>4, <1>6 DEF IntakeTypes
<1>9. TemplatesFit'
  BY <1>1, <1>5, <1>6, <1>7 DEF TemplatesFit
<1>10. PicksUsedOnce'
  <2>1. \A r \in 1..Len(runs) : runs[r].pick = upload.pick => runs[r].answer = "lost"
    BY <1>1 DEF PicksUsedOnce, Unused
  <2>2. form.file # None => \/ \A r \in 1..Len(runs) : runs[r].pick = form.file => runs[r].answer = "lost"
                            \/ upload.pick = form.file
    BY <1>1 DEF PicksUsedOnce, Unused
  <2>3. form'.file # None => Unused(form.file)' \/ (upload' # None /\ upload'.pick = form'.file)
    BY <1>1, <1>2, <1>5, <1>6, <1>7, <2>2, NoneIsNoUpload DEF Unused
  <2>4. \A r, s \in 1..Len(runs') :
          runs'[r].pick = runs'[s].pick /\ runs'[r].answer # "lost" /\ runs'[s].answer # "lost" => r = s
    BY <1>1, <1>5, <1>7, <2>1 DEF PicksUsedOnce
  <2>5. \A r \in 1..Len(runs') : runs'[r].pick <= picks'
    BY <1>1, <1>5, <1>7 DEF PicksUsedOnce
  <2>6. /\ upload'.run \in 1..Len(runs')
        /\ runs'[upload'.run].pick = upload'.pick /\ runs'[upload'.run].answer = "none"
    BY <1>4, <1>6, <1>7
  <2>7. form'.file # None => form'.file <= picks'
    BY <1>1 DEF PicksUsedOnce
  <2>8. upload'.pick <= picks' /\ upload'.at # "sent"
    BY <1>1, <1>6 DEF PicksUsedOnce
  <2>9. form' = form
    BY <1>1
  <2>10. QED
    BY <2>3, <2>4, <2>5, <2>6, <2>7, <2>8, <2>9 DEF PicksUsedOnce
<1>11. QED
  BY <1>8, <1>9, <1>10 DEF IntakeInv

(* A step that changes one run, in whether it is over or how it has been   *)
(* answered.                                                               *)
LEMMA OneRun ==
  ASSUME IntakeInv, NEW k \in 1..Len(runs), NEW run \in IngestedRuns,
         runs' = [runs EXCEPT ![k] = run],
         run.source = runs[k].source, run.template = runs[k].template, run.pick = runs[k].pick
  PROVE  /\ runs' \in Seq(IngestedRuns) /\ Len(runs') = Len(runs)
         /\ \A r \in 1..Len(runs) :
              /\ runs'[r].source = runs[r].source /\ runs'[r].template = runs[r].template
              /\ runs'[r].pick = runs[r].pick
              /\ r # k => runs'[r] = runs[r]
         /\ runs'[k] = run
<1>1. runs \in Seq(IngestedRuns)
  BY DEF IntakeInv, IntakeTypes
<1>2. /\ runs' \in Seq(IngestedRuns) /\ Len(runs') = Len(runs)
      /\ \A r \in 1..Len(runs) : runs'[r] = IF r = k THEN run ELSE runs[r]
  BY <1>1, ExceptSeq
<1>3. QED
  BY <1>2

(* The upload is over: its run, if it has got one, is answered, or the     *)
(* answer is lost.                                                         *)
LEMMA UploadOverInv ==
  ASSUME IntakeInv, UploadAnswered \/ UploadLost
  PROVE  IntakeInv'
<1>1. /\ IntakeTypes /\ TemplatesFit /\ PicksUsedOnce /\ upload # None /\ upload.at = "created"
      /\ upload' = None /\ picks' = picks
  BY DEF IntakeInv, UploadAnswered, UploadLost
<1>2. PICK k \in 1..Len(runs) :
        k = upload.run /\ runs[k].pick = upload.pick /\ runs[k].answer = "none"
  BY <1>1 DEF PicksUsedOnce
<1>3. runs[k] \in IngestedRuns /\ runs \in Seq(IngestedRuns)
  BY <1>1, RunAt DEF IntakeTypes
<1>4. PICK answer \in {"arrived", "lost"} :
        /\ runs' = [runs EXCEPT ![k] = [runs[k] EXCEPT !.answer = answer]]
        /\ answer = "arrived" => form' = [form EXCEPT !.file = None]
        /\ answer = "lost" => form' = form
  <2>1. CASE UploadAnswered
    <3>1. runs' = [runs EXCEPT ![k] = [runs[k] EXCEPT !.answer = "arrived"]]
      BY <1>2, <1>3, <2>1 DEF UploadAnswered
    <3>2. QED
      BY <2>1, <3>1 DEF UploadAnswered
  <2>2. CASE UploadLost
    <3>1. runs' = [runs EXCEPT ![k] = [runs[k] EXCEPT !.answer = "lost"]]
      BY <1>2, <1>3, <2>2 DEF UploadLost
    <3>2. QED
      BY <2>2, <3>1 DEF UploadLost
  <2>3. QED
    BY <2>1, <2>2
<1>5. PICK run \in IngestedRuns :
        /\ run = [runs[k] EXCEPT !.answer = answer]
        /\ run.source = runs[k].source /\ run.template = runs[k].template
        /\ run.pick = runs[k].pick /\ run.answer = answer
  <2>1. PICK run : run = [runs[k] EXCEPT !.answer = answer]
    OBVIOUS
  <2>2. /\ run \in IngestedRuns
        /\ run.source = runs[k].source /\ run.template = runs[k].template
        /\ run.pick = runs[k].pick /\ run.answer = answer
    BY <1>3, <2>1 DEF IngestedRuns
  <2>3. QED
    BY <2>1, <2>2
<1>6. runs' = [runs EXCEPT ![k] = run]
  BY <1>4, <1>5
<1>7. /\ runs' \in Seq(IngestedRuns) /\ Len(runs') = Len(runs)
      /\ \A r \in 1..Len(runs) :
           /\ runs'[r].source = runs[r].source /\ runs'[r].template = runs[r].template
           /\ runs'[r].pick = runs[r].pick
           /\ r # k => runs'[r] = runs[r]
      /\ runs'[k] = run
  BY <1>5, <1>6, OneRun
<1>8. /\ form' \in FormFields /\ form'.source = form.source
      /\ form'.template = form.template /\ form'.edgeTemplate = form.edgeTemplate
      /\ answer = "arrived" => form'.file = None
      /\ answer = "lost" => form'.file = form.file
  BY <1>1, <1>4 DEF IntakeTypes, FormFields
<1>9. IntakeTypes'
  BY <1>1, <1>7, <1>8 DEF IntakeTypes
<1>10. TemplatesFit'
  BY <1>1, <1>7, <1>8 DEF TemplatesFit
<1>11. PicksUsedOnce'
  <2>1. \A r \in 1..Len(runs) : runs'[r].answer = "lost" \/ (runs[r].answer # "lost" /\ runs'[r].answer # "lost")
    BY <1>2, <1>5, <1>7
  <2>2. \A r, s \in 1..Len(runs') :
          runs'[r].pick = runs'[s].pick /\ runs'[r].answer # "lost" /\ runs'[s].answer # "lost" => r = s
    BY <1>1, <1>7, <2>1 DEF PicksUsedOnce
  <2>3. ASSUME form'.file # None
        PROVE  \A r \in 1..Len(runs') : runs'[r].pick = form'.file => runs'[r].answer = "lost"
    <3>1. answer = "lost" /\ form'.file = form.file
      BY <1>8, <2>3
    <3>2. CASE upload.pick = form.file
      <4>1. \A r \in 1..Len(runs) : runs[r].pick = form.file /\ runs[r].answer # "lost" => r = k
        BY <1>1, <1>2, <3>2 DEF PicksUsedOnce
      <4>2. QED
        BY <1>5, <1>7, <2>1, <3>1, <4>1
    <3>3. CASE upload.pick # form.file
      <4>1. \A r \in 1..Len(runs) : runs[r].pick = form.file => runs[r].answer = "lost"
        BY <1>1, <2>3, <3>1, <3>3 DEF PicksUsedOnce, Unused
      <4>2. QED
        BY <1>2, <1>7, <3>1, <3>3, <4>1
    <3>4. QED
      BY <3>2, <3>3
  <2>4. form'.file # None => Unused(form.file)'
    BY <2>3 DEF Unused
  <2>5. \A r \in 1..Len(runs') : runs'[r].pick <= picks'
    BY <1>1, <1>7 DEF PicksUsedOnce
  <2>6. form'.file # None => form'.file <= picks'
    BY <1>1, <1>8 DEF PicksUsedOnce
  <2>7. QED
    BY <1>1, <2>2, <2>4, <2>5, <2>6 DEF PicksUsedOnce
<1>12. QED
  BY <1>9, <1>10, <1>11 DEF IntakeInv

LEMMA UploadRefusedInv ==
  ASSUME IntakeInv, UploadRefused
  PROVE  IntakeInv'
<1>1. /\ IntakeTypes /\ TemplatesFit /\ PicksUsedOnce /\ upload # None /\ upload.at = "sent"
      /\ upload' = None /\ UNCHANGED <<form, picks, runs>>
  BY DEF IntakeInv, UploadRefused
<1>2. IntakeTypes' /\ TemplatesFit'
  BY <1>1 DEF IntakeTypes, TemplatesFit
<1>3. PicksUsedOnce'
  BY <1>1 DEF PicksUsedOnce, Unused
<1>4. QED
  BY <1>2, <1>3 DEF IntakeInv

LEMMA RunOverInv ==
  ASSUME IntakeInv, NEW k \in 1..Len(runs), RunOver(k)
  PROVE  IntakeInv'
<1>1. runs[k] \in IngestedRuns /\ runs' = [runs EXCEPT ![k].over = TRUE]
      /\ UNCHANGED <<form, picks, upload>> /\ IntakeTypes /\ TemplatesFit /\ PicksUsedOnce
  BY RunAt DEF RunOver, IntakeInv
<1>2. PICK run \in IngestedRuns :
        /\ run = [runs[k] EXCEPT !.over = TRUE]
        /\ run.source = runs[k].source /\ run.template = runs[k].template
        /\ run.pick = runs[k].pick /\ run.answer = runs[k].answer
  <2>1. PICK run : run = [runs[k] EXCEPT !.over = TRUE]
    OBVIOUS
  <2>2. /\ run \in IngestedRuns
        /\ run.source = runs[k].source /\ run.template = runs[k].template
        /\ run.pick = runs[k].pick /\ run.answer = runs[k].answer
    BY <1>1, <2>1 DEF IngestedRuns
  <2>3. QED
    BY <2>1, <2>2
<1>3. runs' = [runs EXCEPT ![k] = run]
  BY <1>1, <1>2
<1>4. /\ runs' \in Seq(IngestedRuns) /\ Len(runs') = Len(runs)
      /\ \A r \in 1..Len(runs) :
           /\ runs'[r].source = runs[r].source /\ runs'[r].template = runs[r].template
           /\ runs'[r].pick = runs[r].pick
           /\ r # k => runs'[r] = runs[r]
      /\ runs'[k] = run
  BY <1>2, <1>3, OneRun
<1>5. \A r \in 1..Len(runs) : runs'[r].answer = runs[r].answer
  BY <1>2, <1>4
<1>6. IntakeTypes' /\ TemplatesFit'
  BY <1>1, <1>4 DEF IntakeTypes, TemplatesFit
<1>7. PicksUsedOnce'
  BY <1>1, <1>4, <1>5 DEF PicksUsedOnce, Unused
<1>8. QED
  BY <1>6, <1>7 DEF IntakeInv

LEMMA IntakeStep ==
  ASSUME IntakeInv, [IntakeNext]_intakeVars
  PROVE  IntakeInv'
<1>1. ASSUME \/ \E kind \in {"object", "edge"} : ChooseKind(kind)
             \/ \E source \in Sources \cup {None} : ChooseSource(source)
             \/ \E t \in Templates \cup {None} : ChooseTemplate(t)
             \/ PickFile
      PROVE  IntakeInv'
  BY <1>1, FormInv
<1>2. ASSUME PollRuns \/ TableFocused \/ TableServed \/ TableArrived \/ TableFailed
             \/ UNCHANGED intakeVars
      PROVE  IntakeInv'
  <2>1. UNCHANGED <<form, picks, upload, runs>>
    BY <1>2 DEF PollRuns, TableFocused, TableServed, TableArrived, TableFailed, intakeVars
  <2>2. QED
    BY <2>1 DEF IntakeInv, IntakeTypes, TemplatesFit, PicksUsedOnce, Unused
<1>3. ASSUME NEW r \in 1..Len(runs), RunOver(r) PROVE IntakeInv'
  BY <1>3, RunOverInv
<1>4. CASE Ingest
  BY <1>4, IngestInv
<1>5. CASE UploadAnswered \/ UploadLost
  BY <1>5, UploadOverInv
<1>6. CASE RunCreated
  BY <1>6, RunCreatedInv
<1>7. CASE UploadRefused
  BY <1>7, UploadRefusedInv
<1>8. QED
  BY <1>1, <1>2, <1>3, <1>4, <1>5, <1>6, <1>7 DEF IntakeNext, Templates

LEMMA IntakeFirst == IntakeInit => IntakeInv
<1> SUFFICES ASSUME IntakeInit PROVE IntakeInv
  OBVIOUS
<1>1. /\ form = [kind |-> "object", source |-> None, template |-> None, edgeTemplate |-> None,
                 file |-> None]
      /\ picks = 0 /\ upload = None /\ runs = << >>
  BY DEF IntakeInit
<1>2. form \in FormFields /\ form.template = None /\ form.edgeTemplate = None /\ form.file = None
  BY <1>1 DEF FormFields
<1>3. runs \in Seq(IngestedRuns) /\ Len(runs) = 0
  BY <1>1, EmptySeq
<1>4. QED
  BY <1>1, <1>2, <1>3 DEF IntakeInv, IntakeTypes, TemplatesFit, PicksUsedOnce

-----------------------------------------------------------------------------
(* The forms and their lists: the inductive invariant                      *)

Posts == [form : Forms, name : Names \cup {None}, row : Nat]
FormQueries == [data : Nat \cup {None}, at : {"idle", "asked", "served"}, reply : Nat \cup {None},
                error : BOOLEAN]

FormsTypes ==
  /\ used \subseteq Forms /\ draft \in [Forms -> Names \cup {None}]
  /\ posts \in Seq(Posts) /\ rows \in [Forms -> Seq(Names \cup {None})]
  /\ formLists \in [Forms -> FormQueries] /\ owed \in [Forms -> Nat]

(* The answer on its way holds what is owed already: one read before the   *)
(* row is dropped when the row's creation is answered.                     *)
RowsListed ==
  /\ \A i \in 1..Len(posts) : posts[i].row <= Len(rows[posts[i].form])
  /\ \A f \in Forms :
       /\ owed[f] <= Len(rows[f])
       /\ formLists[f].at = "served" => formLists[f].reply \in Nat /\ formLists[f].reply >= owed[f]
       /\ Settled(formLists[f]) => formLists[f].data \in Nat /\ formLists[f].data >= owed[f]

FormsInv == FormsTypes /\ RowsListed

LEMMA PostAt ==
  ASSUME FormsInv, NEW i \in 1..Len(posts)
  PROVE  /\ posts[i] \in Posts /\ posts[i].form \in Forms /\ posts[i].row \in Nat
         /\ posts[i].row <= Len(rows[posts[i].form])
<1>1. posts \in Seq(Posts)
  BY DEF FormsInv, FormsTypes
<1>2. posts[i] \in Posts
  BY <1>1, ElementOfSeq
<1>3. QED
  BY <1>2 DEF FormsInv, RowsListed, Posts

LEMMA RowsAt ==
  ASSUME FormsInv, NEW f \in Forms
  PROVE  rows[f] \in Seq(Names \cup {None}) /\ Len(rows[f]) \in Nat
<1>1. rows[f] \in Seq(Names \cup {None})
  BY DEF FormsInv, FormsTypes
<1>2. QED
  BY <1>1, LenProperties

-----------------------------------------------------------------------------
(* What happens on the forms and to their lists preserves it               *)

LEMMA TypeInv ==
  ASSUME FormsInv, NEW f \in Forms, NEW name \in Names \cup {None}, Type(f, name)
  PROVE  FormsInv'
<1>1. draft' = [draft EXCEPT ![f] = name] /\ UNCHANGED <<used, posts, rows, formLists, owed>>
  BY DEF Type
<1>2. draft' \in [Forms -> Names \cup {None}]
  BY <1>1 DEF FormsInv, FormsTypes
<1>3. QED
  BY <1>1, <1>2 DEF FormsInv, FormsTypes, RowsListed

LEMMA SubmitInv ==
  ASSUME FormsInv, NEW f \in Forms, Submit(f)
  PROVE  FormsInv'
<1> DEFINE post == [form |-> f, name |-> draft[f], row |-> 0]
<1>1. /\ posts' = Append(posts, post) /\ UNCHANGED <<used, draft, rows, formLists, owed>>
      /\ FormsTypes /\ posts \in Seq(Posts)
  BY DEF Submit, FormsInv, FormsTypes
<1>2. post \in Posts /\ post.row = 0 /\ post.form = f
  BY <1>1 DEF Posts, FormsTypes
<1> HIDE DEF post
<1>3. /\ posts' \in Seq(Posts) /\ Len(posts') = Len(posts) + 1 /\ Len(posts) \in Nat
      /\ \A i \in 1..Len(posts) : posts'[i] = posts[i]
      /\ posts'[Len(posts) + 1] = post
  BY <1>1, <1>2, AppendProperties, LenProperties
<1>4. ASSUME NEW i \in 1..Len(posts')
      PROVE  posts'[i].row <= Len(rows'[posts'[i].form])
  <2>1. CASE i = Len(posts) + 1
    BY <1>1, <1>2, <1>3, <2>1, RowsAt
  <2>2. CASE i # Len(posts) + 1
    <3>1. i \in 1..Len(posts) /\ posts'[i] = posts[i]
      BY <1>3, <2>2
    <3>2. QED
      BY <1>1, <3>1, PostAt
  <2>3. QED
    BY <2>1, <2>2
<1>5. FormsTypes'
  BY <1>1, <1>3 DEF FormsTypes
<1>6. RowsListed'
  BY <1>1, <1>4 DEF FormsInv, RowsListed
<1>7. QED
  BY <1>5, <1>6 DEF FormsInv

LEMMA PostGone ==
  ASSUME FormsInv, NEW i \in 1..Len(posts), posts' = Without(i), UNCHANGED rows
  PROVE  /\ posts' \in Seq(Posts)
         /\ \A j \in 1..Len(posts') : posts'[j].row <= Len(rows'[posts'[j].form])
<1>1. posts \in Seq(Posts)
  BY DEF FormsInv, FormsTypes
<1>2. /\ Without(i) \in Seq(Posts)
      /\ \A j \in 1..Len(Without(i)) : \E k \in 1..Len(posts) : Without(i)[j] = posts[k]
  BY <1>1, Removed DEF Without
<1>3. ASSUME NEW j \in 1..Len(posts')
      PROVE  posts'[j].row <= Len(rows'[posts'[j].form])
  <2>1. PICK k \in 1..Len(posts) : posts'[j] = posts[k]
    BY <1>2
  <2>2. QED
    BY <2>1, PostAt
<1>4. QED
  BY <1>2, <1>3

LEMMA PostFailsInv ==
  ASSUME FormsInv, NEW i \in 1..Len(posts), PostFails(i)
  PROVE  FormsInv'
<1>1. posts' = Without(i) /\ UNCHANGED <<used, draft, rows, formLists, owed>>
  BY DEF PostFails
<1>2. /\ posts' \in Seq(Posts)
      /\ \A j \in 1..Len(posts') : posts'[j].row <= Len(rows'[posts'[j].form])
  BY <1>1, PostGone
<1>3. QED
  BY <1>1, <1>2 DEF FormsInv, FormsTypes, RowsListed

(* A step that changes one form's query, and what its list owes.           *)
LEMMA OneList ==
  ASSUME FormsInv, NEW f \in Forms, NEW q \in FormQueries, NEW due \in Nat,
         formLists' = [formLists EXCEPT ![f] = q], owed' = [owed EXCEPT ![f] = due],
         due <= Len(rows[f]),
         q.at = "served" => q.reply \in Nat /\ q.reply >= due,
         Settled(q) => q.data \in Nat /\ q.data >= due,
         used' = used, draft' \in [Forms -> Names \cup {None}], rows' = rows,
         posts' \in Seq(Posts),
         \A j \in 1..Len(posts') : posts'[j].row <= Len(rows'[posts'[j].form])
  PROVE  FormsInv'
<1>1. FormsTypes'
  BY DEF FormsInv, FormsTypes
<1>2. ASSUME NEW g \in Forms
      PROVE  /\ owed'[g] <= Len(rows'[g])
             /\ formLists'[g].at = "served" => formLists'[g].reply \in Nat /\ formLists'[g].reply >= owed'[g]
             /\ Settled(formLists'[g]) => formLists'[g].data \in Nat /\ formLists'[g].data >= owed'[g]
  <2>1. /\ formLists'[g] = IF g = f THEN q ELSE formLists[g]
        /\ owed'[g] = IF g = f THEN due ELSE owed[g]
    BY DEF FormsInv, FormsTypes
  <2>2. CASE g = f
    BY <2>1, <2>2
  <2>3. CASE g # f
    BY <2>1, <2>3 DEF FormsInv, RowsListed
  <2>4. QED
    BY <2>2, <2>3
<1>3. RowsListed'
  BY <1>2 DEF RowsListed, Settled
<1>4. QED
  BY <1>1, <1>3 DEF FormsInv

LEMMA ListStepInv ==
  ASSUME FormsInv, NEW f \in Forms, ListServedFor(f) \/ ListArrivedFor(f) \/ ListFailedFor(f)
  PROVE  FormsInv'
<1>1. /\ UNCHANGED <<used, draft, posts, rows, owed>> /\ FormsTypes /\ RowsListed
      /\ formLists[f] \in FormQueries /\ owed[f] \in Nat /\ owed[f] <= Len(rows[f])
  BY DEF ListServedFor, ListArrivedFor, ListFailedFor, FormsInv, FormsTypes, RowsListed
<1>2. /\ draft' \in [Forms -> Names \cup {None}] /\ posts' \in Seq(Posts)
      /\ \A j \in 1..Len(posts') : posts'[j].row <= Len(rows'[posts'[j].form])
      /\ owed' = [owed EXCEPT ![f] = owed[f]]
  BY <1>1 DEF FormsTypes, RowsListed
<1>3. PICK q \in FormQueries :
        /\ formLists' = [formLists EXCEPT ![f] = q]
        /\ q.at = "served" => q.reply \in Nat /\ q.reply >= owed[f]
        /\ Settled(q) => q.data \in Nat /\ q.data >= owed[f]
  <2>1. CASE ListServedFor(f)
    <3>1. PICK n \in Nat : n = Len(rows[f])
      BY RowsAt
    <3>2. PICK q : q = [formLists[f] EXCEPT !.at = "served", !.reply = n]
      OBVIOUS
    <3>3. q \in FormQueries /\ q.at = "served" /\ q.reply = n
      BY <1>1, <3>2 DEF FormQueries
    <3>4. formLists' = [formLists EXCEPT ![f] = q]
      BY <2>1, <3>1, <3>2 DEF ListServedFor, Served
    <3>5. QED
      BY <1>1, <3>1, <3>3, <3>4 DEF Settled
  <2>2. CASE ListArrivedFor(f)
    <3>1. PICK q : q = [formLists[f] EXCEPT !.at = "idle", !.data = formLists[f].reply,
                                            !.reply = None, !.error = FALSE]
      OBVIOUS
    <3>2. formLists[f].reply \in Nat /\ formLists[f].reply >= owed[f]
      BY <1>1, <2>2 DEF ListArrivedFor, RowsListed
    <3>3. q \in FormQueries /\ q.at = "idle" /\ q.data = formLists[f].reply
      BY <1>1, <3>1 DEF FormQueries
    <3>4. formLists' = [formLists EXCEPT ![f] = q]
      BY <2>2, <3>1 DEF ListArrivedFor, Arrived
    <3>5. QED
      BY <3>2, <3>3, <3>4
  <2>3. CASE ListFailedFor(f)
    <3>1. PICK q : q = [formLists[f] EXCEPT !.at = "idle", !.reply = None, !.error = TRUE]
      OBVIOUS
    <3>2. q \in FormQueries /\ q.at = "idle" /\ q.error
      BY <1>1, <3>1 DEF FormQueries
    <3>3. formLists' = [formLists EXCEPT ![f] = q]
      BY <2>3, <3>1 DEF ListFailedFor, Failed
    <3>4. QED
      BY <3>2, <3>3 DEF Settled
  <2>4. QED
    BY <2>1, <2>2, <2>3
<1>4. QED
  BY <1>1, <1>2, <1>3, OneList

(* The list owes the new row from now on, and is fetched anew; or it has   *)
(* not been loaded yet, and owes nothing.                                  *)
LEMMA PostAnsweredInv ==
  ASSUME FormsInv, NEW i \in 1..Len(posts), PostAnswered(i)
  PROVE  FormsInv'
<1>1. PICK f \in Forms : f = posts[i].form
  BY PostAt
<1>2. /\ posts' = Without(i) /\ UNCHANGED <<used, rows>>
      /\ draft' = [draft EXCEPT ![f] = None]
      /\ formLists' = [formLists EXCEPT ![f] = Invalidated(formLists[f])]
      /\ owed' = IF (formLists[f].data # None \/ formLists[f].at = "idle") /\ posts[i].row > owed[f]
                   THEN [owed EXCEPT ![f] = posts[i].row] ELSE owed
  BY <1>1 DEF PostAnswered, KeyOf
<1>3. /\ FormsTypes /\ RowsListed /\ formLists[f] \in FormQueries /\ owed[f] \in Nat
      /\ owed[f] <= Len(rows[f]) /\ owed = [owed EXCEPT ![f] = owed[f]]
  BY DEF FormsInv, FormsTypes, RowsListed
<1>4. posts[i].row \in Nat /\ posts[i].row <= Len(rows[f])
  BY <1>1, PostAt
<1>5. /\ posts' \in Seq(Posts)
      /\ \A j \in 1..Len(posts') : posts'[j].row <= Len(rows'[posts'[j].form])
  BY <1>2, PostGone
<1>6. draft' \in [Forms -> Names \cup {None}]
  BY <1>2, <1>3 DEF FormsTypes
<1>7. CASE formLists[f].data = None /\ formLists[f].at # "idle"
  <2>1. Invalidated(formLists[f]) = formLists[f] /\ owed' = [owed EXCEPT ![f] = owed[f]]
    BY <1>2, <1>3, <1>7 DEF Invalidated
  <2>2. /\ formLists[f].at = "served" => formLists[f].reply \in Nat /\ formLists[f].reply >= owed[f]
        /\ Settled(formLists[f]) => formLists[f].data \in Nat /\ formLists[f].data >= owed[f]
    BY <1>3 DEF RowsListed
  <2>3. QED
    BY <1>2, <1>3, <1>5, <1>6, <2>1, <2>2, OneList
<1>8. CASE formLists[f].data # None \/ formLists[f].at = "idle"
  <2>1. PICK due \in Nat : owed' = [owed EXCEPT ![f] = due] /\ due <= Len(rows[f])
    BY <1>2, <1>3, <1>4, <1>8
  <2>2. PICK q : q = [formLists[f] EXCEPT !.at = "asked", !.reply = None]
    OBVIOUS
  <2>3. q \in FormQueries /\ q.at = "asked"
    BY <1>3, <2>2 DEF FormQueries
  <2>4. Invalidated(formLists[f]) = q
    BY <1>8, <2>2 DEF Invalidated, Refetched
  <2>5. q.at # "served" /\ ~Settled(q)
    BY <2>3 DEF Settled
  <2>6. formLists' = [formLists EXCEPT ![f] = q]
    BY <1>2, <2>4
  <2>7. QED
    BY <1>2, <1>5, <1>6, <2>1, <2>3, <2>5, <2>6, OneList
<1>9. QED
  BY <1>7, <1>8

LEMMA PostCommitsInv ==
  ASSUME FormsInv, NEW i \in 1..Len(posts), PostCommits(i)
  PROVE  FormsInv'
<1>1. PICK f \in Forms : f = posts[i].form
  BY PostAt
<1>2. /\ rows' = [rows EXCEPT ![f] = Append(rows[f], posts[i].name)]
      /\ posts' = [posts EXCEPT ![i].row = Len(rows'[f])]
      /\ UNCHANGED <<used, draft, formLists, owed>>
  BY <1>1 DEF PostCommits
<1>3. posts \in Seq(Posts) /\ rows \in [Forms -> Seq(Names \cup {None})] /\ FormsTypes /\ RowsListed
  BY DEF FormsInv, FormsTypes
<1>4. PICK more \in Seq(Names \cup {None}) :
        more = Append(rows[f], posts[i].name) /\ Len(more) = Len(rows[f]) + 1
  <2>1. posts[i].name \in Names \cup {None}
    BY PostAt DEF Posts
  <2>2. rows[f] \in Seq(Names \cup {None})
    BY RowsAt
  <2>3. PICK more : more = Append(rows[f], posts[i].name)
    OBVIOUS
  <2>4. more \in Seq(Names \cup {None}) /\ Len(more) = Len(rows[f]) + 1
    BY <2>1, <2>2, <2>3, AppendProperties
  <2>5. QED
    BY <2>3, <2>4
<1>5. /\ rows' \in [Forms -> Seq(Names \cup {None})] /\ rows'[f] = more
      /\ \A g \in Forms : Len(rows[g]) \in Nat /\ Len(rows[g]) <= Len(rows'[g])
  <2>1. rows' = [rows EXCEPT ![f] = more]
    BY <1>2, <1>4
  <2>2. \A g \in Forms : rows'[g] = IF g = f THEN more ELSE rows[g]
    BY <1>3, <2>1
  <2>3. \A g \in Forms : Len(rows[g]) \in Nat
    BY RowsAt
  <2>4. QED
    BY <1>3, <1>4, <2>1, <2>2, <2>3
<1>6. PICK post \in Posts : /\ posts' = [posts EXCEPT ![i] = post]
                            /\ post.form = f /\ post.row = Len(more)
  <2>1. PICK n \in Nat : n = Len(more)
    BY <1>4, LenProperties
  <2>2. PICK post : post = [posts[i] EXCEPT !.row = n]
    OBVIOUS
  <2>3. post \in Posts /\ post.form = f /\ post.row = n
    BY <1>1, <2>2, PostAt DEF Posts
  <2>4. posts' = [posts EXCEPT ![i] = post]
    BY <1>2, <1>5, <2>1, <2>2
  <2>5. QED
    BY <2>1, <2>3, <2>4
<1>7. /\ posts' \in Seq(Posts) /\ Len(posts') = Len(posts)
      /\ \A j \in 1..Len(posts) : posts'[j] = IF j = i THEN post ELSE posts[j]
  BY <1>3, <1>6, ExceptSeq
<1>8. ASSUME NEW j \in 1..Len(posts')
      PROVE  posts'[j].row <= Len(rows'[posts'[j].form])
  <2>1. CASE j = i
    <3>1. Len(more) \in Nat
      BY <1>4, LenProperties
    <3>2. QED
      BY <1>5, <1>6, <1>7, <2>1, <3>1
  <2>2. CASE j # i
    <3>1. posts'[j] = posts[j] /\ j \in 1..Len(posts)
      BY <1>7, <2>2
    <3>2. posts[j].form \in Forms /\ posts[j].row \in Nat /\ posts[j].row <= Len(rows[posts[j].form])
      BY <3>1, PostAt
    <3>3. Len(rows'[posts[j].form]) \in Nat
      BY <1>5, <3>2, LenProperties
    <3>4. QED
      BY <1>5, <3>1, <3>2, <3>3
  <2>3. QED
    BY <2>1, <2>2
<1>9. FormsTypes'
  BY <1>2, <1>3, <1>5, <1>7 DEF FormsTypes
<1>10. RowsListed'
  <2>1. ASSUME NEW g \in Forms PROVE owed'[g] <= Len(rows'[g])
    <3>1. owed[g] \in Nat /\ owed[g] <= Len(rows[g]) /\ Len(rows'[g]) \in Nat
      BY <1>3, <1>5, LenProperties DEF FormsTypes, RowsListed
    <3>2. QED
      BY <1>2, <1>5, <3>1
  <2>2. QED
    BY <1>2, <1>3, <1>8, <2>1 DEF RowsListed
<1>11. QED
  BY <1>9, <1>10 DEF FormsInv

LEMMA FormsStep ==
  ASSUME FormsInv, [FormsNext]_formsVars
  PROVE  FormsInv'
<1>1. \A f \in used : f \in Forms
  BY DEF FormsInv, FormsTypes
<1>2. ASSUME NEW f \in Forms, NEW name \in Names \cup {None}, Type(f, name) PROVE FormsInv'
  BY <1>2, TypeInv
<1>3. ASSUME NEW f \in Forms, Submit(f) PROVE FormsInv'
  BY <1>3, SubmitInv
<1>4. ASSUME NEW f \in Forms, ListServedFor(f) \/ ListArrivedFor(f) \/ ListFailedFor(f)
      PROVE  FormsInv'
  BY <1>4, ListStepInv
<1>5. ASSUME NEW i \in 1..Len(posts), PostAnswered(i) \/ PostFails(i) \/ PostCommits(i)
      PROVE  FormsInv'
  BY <1>5, PostAnsweredInv, PostFailsInv, PostCommitsInv
<1>6. CASE UNCHANGED formsVars
  BY <1>6 DEF formsVars, FormsInv, FormsTypes, RowsListed
<1>7. QED
  BY <1>1, <1>2, <1>3, <1>4, <1>5, <1>6 DEF FormsNext

LEMMA FormsFirst == FormsInit => FormsInv
<1> SUFFICES ASSUME FormsInit PROVE FormsInv
  OBVIOUS
<1>1. used \subseteq Forms
  BY FormsAssumption DEF FormsInit, Forms
<1>2. /\ draft = [f \in Forms |-> None] /\ posts = << >> /\ rows = [f \in Forms |-> << >>]
      /\ owed = [f \in Forms |-> 0]
      /\ formLists = [f \in Forms |-> IF f \in used THEN Mounted ELSE Arrived(Served(Mounted, 0))]
  BY DEF FormsInit
<1>3. Mounted \in FormQueries /\ Mounted.at = "asked"
  BY DEF Mounted, FormQueries
<1>4. PICK shown : shown = Arrived(Served(Mounted, 0))
  OBVIOUS
<1>5. shown \in FormQueries /\ shown.at = "idle" /\ shown.data = 0
  <2>1. PICK served : served = Served(Mounted, 0)
    OBVIOUS
  <2>2. served \in FormQueries /\ served.reply = 0
    BY <1>3, <2>1 DEF Served, FormQueries
  <2>3. shown = Arrived(served)
    BY <1>4, <2>1
  <2>4. QED
    BY <2>2, <2>3 DEF Arrived, FormQueries
<1>6. \A f \in Forms : formLists[f] = IF f \in used THEN Mounted ELSE shown
  BY <1>2, <1>4
<1>7. FormsTypes
  <2>1. formLists \in [Forms -> FormQueries]
    BY <1>2, <1>3, <1>4, <1>5
  <2>2. << >> \in Seq(Posts) /\ << >> \in Seq(Names \cup {None})
    BY EmptySeq
  <2>3. QED
    BY <1>1, <1>2, <2>1, <2>2 DEF FormsTypes
<1>8. RowsListed
  <2>1. \A f \in Forms : owed[f] = 0 /\ Len(rows[f]) = 0
    BY <1>2, EmptySeq
  <2>2. Len(posts) = 0
    BY <1>2, EmptySeq
  <2>3. QED
    BY <1>3, <1>5, <1>6, <2>1, <2>2 DEF RowsListed, Settled
<1>9. QED
  BY <1>7, <1>8 DEF FormsInv

-----------------------------------------------------------------------------
(* User administration: the inductive invariants                           *)

Rows == [role : Roles, active : BOOLEAN]
Lists == [rows : [Users -> Rows], changes : Nat]
Patches == [by : Admins, user : Users, body : Bodies,
            at : {"sent", "accepted", "refused", "read", "locked", "committed", "answered", "lost",
                  "failed"},
            previous : Rows \cup {None}, change : Nat]
Entries == [user : Users, previous : Rows \cup {None}, updated : Bodies]
ListQueries == [data : Lists \cup {None}, at : {"idle", "asked", "served"},
                reply : Lists \cup {None}, error : BOOLEAN]

UserAdminTypes ==
  /\ users \in [Users -> Rows] /\ audits \in Seq(Entries) /\ patches \in Seq(Patches)
  /\ userLists \in [Admins -> ListQueries]

(* The changes that a's tab was told had succeeded are among the first c.  *)
Told(sent, a, c) ==
  \A p \in 1..Len(sent) : sent[p].by = a /\ sent[p].at = "answered" => sent[p].change <= c

(* Who has sent a change has a list on the screen, so that the answer to   *)
(* the change cancels a fetch under way; an answer that arrives was read   *)
(* after every change the tab has been told of.                            *)
ListsCurrent ==
  /\ \A p \in 1..Len(patches) :
       patches[p].change <= Len(audits) /\ userLists[patches[p].by].data # None
  /\ \A a \in Admins :
       /\ userLists[a].at = "served" =>
            userLists[a].reply # None /\ Told(patches, a, userLists[a].reply.changes)
       /\ Settled(userLists[a]) =>
            userLists[a].data # None /\ Told(patches, a, userLists[a].data.changes)

UsersInv == UserAdminTypes /\ ListsCurrent

UsersAtFirst == [u \in Users |-> [role |-> IF u \in Admins THEN "admin" ELSE "analyst",
                                  active |-> TRUE]]

Applied(before, entry) == [before EXCEPT ![entry.user] = With(@, entry.updated)]

(* What the log's entries give when they are applied in order: h[n] are    *)
(* the rows after the first n.                                             *)
Replays(h, log) ==
  h = [n \in 0..Len(log) |->
         IF n = 0 THEN UsersAtFirst
         ELSE Applied(h[n - 1], log[n])]

(* The committed rows are what the log gives.                              *)
LogInv == \E h : Replays(h, audits) /\ users = h[Len(audits)]

LEMMA NoneIsNoList == None \notin Lists
BY UserAdminAssumption DEF Lists, Rows

LEMMA PatchAt ==
  ASSUME UsersInv, NEW p \in 1..Len(patches)
  PROVE  /\ patches[p] \in Patches /\ patches[p].by \in Admins /\ patches[p].user \in Users
         /\ patches[p].body \in Bodies /\ patches[p].change \in Nat
         /\ patches[p].previous \in Rows \cup {None}
<1>1. patches \in Seq(Patches)
  BY DEF UsersInv, UserAdminTypes
<1>2. patches[p] \in Patches
  BY <1>1, ElementOfSeq
<1>3. QED
  BY <1>2 DEF Patches

LEMMA RowChanged ==
  ASSUME NEW row \in Rows, NEW body \in Bodies
  PROVE  With(row, body) \in Rows
<1>1. CASE body \in [column : {"role"}, value : Roles]
  <2>1. PICK v \in Roles : body.value = v /\ body.column = "role"
    BY <1>1
  <2>2. With(row, body) = [row EXCEPT !.role = v]
    BY <2>1 DEF With
  <2>3. QED
    BY <2>2 DEF Rows
<1>2. CASE body \in [column : {"active"}, value : BOOLEAN]
  <2>1. PICK v \in BOOLEAN : body.value = v /\ body.column = "active"
    BY <1>2
  <2>2. With(row, body) = [row EXCEPT !.active = v]
    BY <2>1 DEF With
  <2>3. QED
    BY <2>2 DEF Rows
<1>3. QED
  BY <1>1, <1>2 DEF Bodies

-----------------------------------------------------------------------------
(* The requests preserve it                                                *)

(* A step that changes one request, unless its answer has come before, and *)
(* leaves rows, log and lists as they are.                                 *)
LEMMA OnePatch ==
  ASSUME UsersInv, NEW p \in 1..Len(patches), NEW patch \in Patches,
         patches' = [patches EXCEPT ![p] = patch],
         patch.by = patches[p].by, patch.change = patches[p].change,
         patch.at # "answered", UNCHANGED <<users, audits, userLists>>
  PROVE  UsersInv'
<1>1. patches \in Seq(Patches) /\ UserAdminTypes /\ ListsCurrent
  BY DEF UsersInv, UserAdminTypes
<1>2. /\ patches' \in Seq(Patches) /\ Len(patches') = Len(patches)
      /\ \A q \in 1..Len(patches) : patches'[q] = IF q = p THEN patch ELSE patches[q]
  BY <1>1, ExceptSeq
<1>3. UserAdminTypes'
  BY <1>1, <1>2 DEF UserAdminTypes
<1>4. \A a, c : Told(patches, a, c) => Told(patches', a, c)
  BY <1>2 DEF Told
<1>5. \A q \in 1..Len(patches') :
        patches'[q].change <= Len(audits') /\ userLists'[patches'[q].by].data # None
  BY <1>1, <1>2 DEF ListsCurrent
<1>6. ListsCurrent'
  BY <1>1, <1>4, <1>5 DEF ListsCurrent
<1>7. QED
  BY <1>3, <1>6 DEF UsersInv

(* Authentication, the SELECT, the lock, a failure, and an answer that is  *)
(* lost.                                                                   *)
LEMMA PatchStepInv ==
  ASSUME UsersInv, NEW p \in 1..Len(patches),
         PatchAuthenticated(p) \/ PatchReads(p) \/ PatchLocks(p) \/ PatchFails(p) \/ PatchAnswerLost(p)
  PROVE  UsersInv'
<1>1. /\ UNCHANGED <<users, audits, userLists>> /\ patches[p] \in Patches
      /\ patches[p].user \in Users /\ users \in [Users -> Rows]
  BY PatchAt DEF PatchAuthenticated, PatchReads, PatchLocks, PatchFails, PatchAnswerLost, UsersInv,
                 UserAdminTypes
<1>2. PICK patch : /\ patches' = [patches EXCEPT ![p] = patch]
                   /\ \/ \E at \in {"accepted", "refused", "locked", "lost", "failed"} :
                           patch = [patches[p] EXCEPT !.at = at]
                      \/ \E row \in Rows : patch = [patches[p] EXCEPT !.at = "read", !.previous = row]
  <2>1. CASE PatchReads(p)
    <3>1. PICK row \in Rows : row = users[patches[p].user]
      BY <1>1
    <3>2. patches' = [patches EXCEPT ![p] = [patches[p] EXCEPT !.at = "read", !.previous = row]]
      BY <2>1, <3>1 DEF PatchReads
    <3>3. QED
      BY <3>2
  <2>2. CASE ~PatchReads(p)
    <3>1. PICK at \in {"accepted", "refused", "locked", "lost", "failed"} :
            patches' = [patches EXCEPT ![p].at = at]
      BY <2>2 DEF PatchAuthenticated, PatchLocks, PatchFails, PatchAnswerLost
    <3>2. patches' = [patches EXCEPT ![p] = [patches[p] EXCEPT !.at = at]]
      BY <3>1
    <3>3. QED
      BY <3>2
  <2>3. QED
    BY <2>1, <2>2
<1>3. /\ patch \in Patches /\ patch.by = patches[p].by /\ patch.change = patches[p].change
      /\ patch.at # "answered"
  BY <1>1, <1>2 DEF Patches
<1>4. QED
  BY <1>1, <1>2, <1>3, OnePatch

(* A change is sent from a list that is shown.                             *)
LEMMA ChangeUserInv ==
  ASSUME UsersInv, NEW a \in Admins, NEW u \in Users, NEW body \in Bodies, ChangeUser(a, u, body)
  PROVE  UsersInv'
<1> DEFINE patch == [by |-> a, user |-> u, body |-> body, at |-> "sent",
                     previous |-> None, change |-> 0]
<1>1. /\ patches' = Append(patches, patch) /\ UNCHANGED <<users, audits, userLists>>
      /\ userLists[a].data # None /\ UserAdminTypes /\ ListsCurrent
      /\ patches \in Seq(Patches) /\ Len(audits) \in Nat
  BY LenProperties DEF ChangeUser, UsersInv, UserAdminTypes
<1>2. patch \in Patches /\ patch.by = a /\ patch.at = "sent" /\ patch.change = 0
  BY DEF Patches
<1> HIDE DEF patch
<1>3. /\ patches' \in Seq(Patches) /\ Len(patches') = Len(patches) + 1 /\ Len(patches) \in Nat
      /\ \A p \in 1..Len(patches) : patches'[p] = patches[p]
      /\ patches'[Len(patches) + 1] = patch
  BY <1>1, <1>2, AppendProperties, LenProperties
<1>4. \A p \in 1..Len(patches') :
        patches'[p] = patch \/ (p \in 1..Len(patches) /\ patches'[p] = patches[p])
  BY <1>3
<1>5. \A b, c : Told(patches, b, c) => Told(patches', b, c)
  BY <1>2, <1>4 DEF Told
<1>6. \A p \in 1..Len(patches') :
        patches'[p].change <= Len(audits') /\ userLists'[patches'[p].by].data # None
  BY <1>1, <1>2, <1>4 DEF ListsCurrent
<1>7. UserAdminTypes'
  BY <1>1, <1>3 DEF UserAdminTypes
<1>8. ListsCurrent'
  BY <1>1, <1>5, <1>6 DEF ListsCurrent
<1>9. QED
  BY <1>7, <1>8 DEF UsersInv

(* The new entry is the last one of the log, and the change's number.      *)
LEMMA PatchCommitsInv ==
  ASSUME UsersInv, NEW p \in 1..Len(patches), PatchCommits(p)
  PROVE  UsersInv'
<1> DEFINE entry == [user |-> patches[p].user, previous |-> patches[p].previous,
                     updated |-> patches[p].body]
<1>1. /\ patches[p].at = "locked" /\ patches[p] \in Patches /\ UserAdminTypes /\ ListsCurrent
      /\ users' = [users EXCEPT ![patches[p].user] = With(users[patches[p].user], patches[p].body)]
      /\ audits' = Append(audits, entry) /\ userLists' = userLists
      /\ patches' = [patches EXCEPT ![p].at = "committed", ![p].change = Len(audits')]
      /\ patches \in Seq(Patches) /\ audits \in Seq(Entries) /\ users \in [Users -> Rows]
  BY PatchAt DEF PatchCommits, UsersInv, UserAdminTypes
<1>2. entry \in Entries
  BY PatchAt DEF Entries
<1> HIDE DEF entry
<1>3. /\ audits' \in Seq(Entries) /\ Len(audits') = Len(audits) + 1 /\ Len(audits) \in Nat
      /\ Len(audits') \in Nat
  BY <1>1, <1>2, AppendProperties, LenProperties
<1>4. users' \in [Users -> Rows]
  <2>1. PICK row \in Rows : row = With(users[patches[p].user], patches[p].body)
    BY <1>1, PatchAt, RowChanged
  <2>2. users' = [users EXCEPT ![patches[p].user] = row]
    BY <1>1, <2>1
  <2>3. QED
    BY <1>1, <2>2
<1>5. PICK n \in Nat : n = Len(audits')
  BY <1>3
<1>6. PICK patch : patch = [patches[p] EXCEPT !.at = "committed", !.change = n]
  OBVIOUS
<1>7. patch \in Patches /\ patch.by = patches[p].by /\ patch.at = "committed" /\ patch.change = n
  BY <1>1, <1>6 DEF Patches
<1>8. patches' = [patches EXCEPT ![p] = patch]
  BY <1>1, <1>5, <1>6
<1>9. /\ patches' \in Seq(Patches) /\ Len(patches') = Len(patches)
      /\ \A q \in 1..Len(patches) : patches'[q] = IF q = p THEN patch ELSE patches[q]
  <2>1. patches \in Seq(Patches) /\ patch \in Patches
    BY <1>1, <1>7
  <2>2. QED
    BY <1>8, <2>1, ExceptSeq
<1>10. UserAdminTypes'
  BY <1>1, <1>3, <1>4, <1>9 DEF UserAdminTypes
<1>11. \A b, c : Told(patches, b, c) => Told(patches', b, c)
  BY <1>7, <1>9 DEF Told
<1>12. ASSUME NEW q \in 1..Len(patches')
       PROVE  patches'[q].change <= Len(audits') /\ userLists'[patches'[q].by].data # None
  <2>1. CASE q = p
    BY <1>1, <1>5, <1>7, <1>9, <2>1 DEF ListsCurrent
  <2>2. CASE q # p
    <3>1. patches[q].change \in Nat /\ patches[q].change <= Len(audits)
      BY <1>1, <1>9, PatchAt DEF ListsCurrent
    <3>2. QED
      BY <1>1, <1>3, <1>9, <2>2, <3>1 DEF ListsCurrent
  <2>3. QED
    BY <2>1, <2>2
<1>13. ListsCurrent'
  BY <1>1, <1>11, <1>12 DEF ListsCurrent
<1>14. QED
  BY <1>10, <1>13 DEF UsersInv

(* A step that changes one tab's query, and no request but one that it     *)
(* marks as answered.                                                      *)
LEMMA OneQuery ==
  ASSUME UsersInv, NEW a \in Admins, NEW q \in ListQueries,
         userLists' = [userLists EXCEPT ![a] = q],
         UNCHANGED <<users, audits>>, patches' \in Seq(Patches), Len(patches') = Len(patches),
         \A p \in 1..Len(patches) :
           /\ patches'[p].by = patches[p].by /\ patches'[p].change = patches[p].change
           /\ patches[p].by # a => patches'[p] = patches[p],
         userLists[a].data # None => q.data # None,
         q.at = "served" => q.reply # None /\ Told(patches', a, q.reply.changes),
         Settled(q) => q.data # None /\ Told(patches', a, q.data.changes)
  PROVE  UsersInv'
<1>1. UserAdminTypes /\ ListsCurrent
  BY DEF UsersInv
<1>2. \A b \in Admins : userLists'[b] = IF b = a THEN q ELSE userLists[b]
  BY <1>1 DEF UserAdminTypes
<1>3. UserAdminTypes'
  BY <1>1 DEF UserAdminTypes
<1>4. ASSUME NEW p \in 1..Len(patches')
      PROVE  patches'[p].change <= Len(audits') /\ userLists'[patches'[p].by].data # None
  <2>1. /\ patches[p].by \in Admins /\ patches[p].change <= Len(audits)
        /\ userLists[patches[p].by].data # None
    BY <1>1, PatchAt DEF ListsCurrent
  <2>2. QED
    BY <1>2, <2>1
<1>5. ASSUME NEW b \in Admins
      PROVE  /\ userLists'[b].at = "served" =>
                  userLists'[b].reply # None /\ Told(patches', b, userLists'[b].reply.changes)
             /\ Settled(userLists'[b]) =>
                  userLists'[b].data # None /\ Told(patches', b, userLists'[b].data.changes)
  <2>1. CASE b = a
    BY <1>2, <2>1
  <2>2. CASE b # a
    <3>1. userLists'[b] = userLists[b]
      BY <1>2, <2>2
    <3>2. \A c : Told(patches, b, c) => Told(patches', b, c)
      BY <2>2 DEF Told
    <3>3. /\ userLists[b].at = "served" =>
               userLists[b].reply # None /\ Told(patches, b, userLists[b].reply.changes)
          /\ Settled(userLists[b]) =>
               userLists[b].data # None /\ Told(patches, b, userLists[b].data.changes)
      BY <1>1 DEF ListsCurrent
    <3>4. QED
      BY <3>1, <3>2, <3>3
  <2>3. QED
    BY <2>1, <2>2
<1>6. ListsCurrent'
  BY <1>4, <1>5 DEF ListsCurrent, Settled
<1>7. QED
  BY <1>3, <1>6 DEF UsersInv

LEMMA UserListInv ==
  ASSUME UsersInv, NEW a \in Admins,
         ListFocused(a) \/ ListServed(a) \/ ListArrived(a) \/ ListFailed(a)
  PROVE  UsersInv'
<1>1. /\ UNCHANGED <<users, audits, patches>> /\ UserAdminTypes /\ ListsCurrent
      /\ userLists[a] \in ListQueries /\ patches \in Seq(Patches)
  BY DEF ListFocused, ListServed, ListArrived, ListFailed, UsersInv, UserAdminTypes
<1>2. PICK q \in ListQueries :
        /\ userLists' = [userLists EXCEPT ![a] = q]
        /\ userLists[a].data # None => q.data # None
        /\ q.at = "served" => q.reply # None /\ Told(patches, a, q.reply.changes)
        /\ Settled(q) => q.data # None /\ Told(patches, a, q.data.changes)
  <2>1. CASE ListFocused(a)
    <3>1. PICK q : q = [userLists[a] EXCEPT !.at = "asked", !.reply = None]
      OBVIOUS
    <3>2. q \in ListQueries /\ q.at = "asked" /\ q.data = userLists[a].data
      BY <1>1, <3>1 DEF ListQueries
    <3>3. userLists' = [userLists EXCEPT ![a] = q]
      BY <2>1, <3>1 DEF ListFocused, Polled, Refetched
    <3>4. QED
      BY <3>2, <3>3 DEF Settled
  <2>2. CASE ListServed(a)
    <3>1. PICK reply : reply = CurrentList
      OBVIOUS
    <3>2. reply \in Lists /\ reply.changes = Len(audits)
      BY <1>1, <3>1, LenProperties DEF CurrentList, Lists, UserAdminTypes
    <3>3. PICK q : q = [userLists[a] EXCEPT !.at = "served", !.reply = reply]
      OBVIOUS
    <3>4. q \in ListQueries /\ q.at = "served" /\ q.reply = reply /\ q.data = userLists[a].data
      BY <1>1, <3>2, <3>3 DEF ListQueries
    <3>5. userLists' = [userLists EXCEPT ![a] = q]
      BY <2>2, <3>1, <3>3 DEF ListServed, Served
    <3>6. reply # None /\ Told(patches, a, reply.changes)
      BY <1>1, <3>2, NoneIsNoList DEF Told, ListsCurrent
    <3>7. QED
      BY <3>4, <3>5, <3>6 DEF Settled
  <2>3. CASE ListArrived(a)
    <3>1. PICK q : q = [userLists[a] EXCEPT !.at = "idle", !.data = userLists[a].reply,
                                            !.reply = None, !.error = FALSE]
      OBVIOUS
    <3>2. q \in ListQueries /\ q.at = "idle" /\ q.data = userLists[a].reply
      BY <1>1, <3>1 DEF ListQueries
    <3>3. userLists' = [userLists EXCEPT ![a] = q]
      BY <2>3, <3>1 DEF ListArrived, Arrived
    <3>4. userLists[a].reply # None /\ Told(patches, a, userLists[a].reply.changes)
      BY <1>1, <2>3 DEF ListArrived, ListsCurrent
    <3>5. QED
      BY <3>2, <3>3, <3>4
  <2>4. CASE ListFailed(a)
    <3>1. PICK q : q = [userLists[a] EXCEPT !.at = "idle", !.reply = None, !.error = TRUE]
      OBVIOUS
    <3>2. q \in ListQueries /\ q.at = "idle" /\ q.error /\ q.data = userLists[a].data
      BY <1>1, <3>1 DEF ListQueries
    <3>3. userLists' = [userLists EXCEPT ![a] = q]
      BY <2>4, <3>1 DEF ListFailed, Failed
    <3>4. QED
      BY <3>2, <3>3 DEF Settled
  <2>5. QED
    BY <2>1, <2>2, <2>3, <2>4
<1>3. QED
  BY <1>1, <1>2, OneQuery

(* The tab has a list, so that the fetch under way is cancelled and a new  *)
(* one begun.                                                              *)
LEMMA PatchAnsweredInv ==
  ASSUME UsersInv, NEW p \in 1..Len(patches), PatchAnswered(p)
  PROVE  UsersInv'
<1>1. PICK a \in Admins : a = patches[p].by
  BY PatchAt
<1>2. /\ UNCHANGED <<users, audits>> /\ UserAdminTypes /\ ListsCurrent
      /\ userLists[a] \in ListQueries /\ patches[p] \in Patches
      /\ userLists' = [userLists EXCEPT ![a] = Invalidated(userLists[a])]
      /\ patches' = [patches EXCEPT ![p].at = "answered"] /\ patches \in Seq(Patches)
  BY <1>1, PatchAt DEF PatchAnswered, UsersInv, UserAdminTypes
<1>3. userLists[a].data # None
  BY <1>1, <1>2 DEF ListsCurrent
<1>4. PICK q : q = [userLists[a] EXCEPT !.at = "asked", !.reply = None]
  OBVIOUS
<1>5. q \in ListQueries /\ q.at = "asked" /\ q.data = userLists[a].data /\ ~Settled(q)
  BY <1>2, <1>4 DEF ListQueries, Settled
<1>6. userLists' = [userLists EXCEPT ![a] = q]
  BY <1>2, <1>3, <1>4 DEF Invalidated, Refetched
<1>7. PICK patch : patch = [patches[p] EXCEPT !.at = "answered"]
  OBVIOUS
<1>8. patch \in Patches /\ patch.by = patches[p].by /\ patch.change = patches[p].change
  BY <1>2, <1>7 DEF Patches
<1>9. patches' = [patches EXCEPT ![p] = patch]
  BY <1>2, <1>7
<1>10. /\ patches' \in Seq(Patches) /\ Len(patches') = Len(patches)
       /\ \A k \in 1..Len(patches) : patches'[k] = IF k = p THEN patch ELSE patches[k]
  <2>1. patches \in Seq(Patches)
    BY <1>2
  <2>2. QED
    BY <1>8, <1>9, <2>1, ExceptSeq
<1>11. \A k \in 1..Len(patches) :
         /\ patches'[k].by = patches[k].by /\ patches'[k].change = patches[k].change
         /\ patches[k].by # a => patches'[k] = patches[k]
  BY <1>1, <1>8, <1>10
<1>12. q.at # "served" /\ q.data # None
  BY <1>3, <1>5
<1>13. QED
  BY <1>2, <1>5, <1>6, <1>10, <1>11, <1>12, OneQuery

LEMMA UsersStep ==
  ASSUME UsersInv, [UserAdminNext]_userAdminVars
  PROVE  UsersInv'
<1>1. ASSUME NEW a \in Admins, NEW u \in Users, NEW body \in Bodies, ChangeUser(a, u, body)
      PROVE  UsersInv'
  BY <1>1, ChangeUserInv
<1>2. ASSUME NEW a \in Admins, ListFocused(a) \/ ListServed(a) \/ ListArrived(a) \/ ListFailed(a)
      PROVE  UsersInv'
  BY <1>2, UserListInv
<1>3. ASSUME NEW p \in 1..Len(patches),
             \/ PatchAuthenticated(p) \/ PatchReads(p) \/ PatchLocks(p) \/ PatchFails(p)
             \/ PatchAnswerLost(p)
      PROVE  UsersInv'
  BY <1>3, PatchStepInv
<1>4. ASSUME NEW p \in 1..Len(patches), PatchCommits(p) \/ PatchAnswered(p) PROVE UsersInv'
  BY <1>4, PatchCommitsInv, PatchAnsweredInv
<1>5. CASE UNCHANGED userAdminVars
  BY <1>5 DEF userAdminVars, UsersInv, UserAdminTypes, ListsCurrent
<1>6. QED
  BY <1>1, <1>2, <1>3, <1>4, <1>5 DEF UserAdminNext

LEMMA UsersFirst == UserAdminInit => UsersInv
<1> SUFFICES ASSUME UserAdminInit PROVE UsersInv
  OBVIOUS
<1>1. /\ users = UsersAtFirst /\ audits = << >> /\ patches = << >>
      /\ userLists = [a \in Admins |-> Mounted]
  BY DEF UserAdminInit, UsersAtFirst
<1>2. users \in [Users -> Rows]
  BY <1>1 DEF UsersAtFirst, Rows, Roles
<1>3. Mounted \in ListQueries /\ Mounted.at = "asked"
  BY DEF Mounted, ListQueries
<1>4. audits \in Seq(Entries) /\ patches \in Seq(Patches) /\ Len(patches) = 0
  BY <1>1, EmptySeq
<1>5. UserAdminTypes
  BY <1>1, <1>2, <1>3, <1>4 DEF UserAdminTypes
<1>6. ListsCurrent
  BY <1>1, <1>3, <1>4 DEF ListsCurrent, Settled
<1>7. QED
  BY <1>5, <1>6 DEF UsersInv

-----------------------------------------------------------------------------
(* The audit log replays                                                   *)

(* What a log's entries give does not depend on entries after them, and    *)
(* an entry gives the rows it says it has updated.                         *)
LEMMA ReplayMore ==
  ASSUME NEW log \in Seq(Entries), NEW entry, NEW more, NEW h, Replays(h, log),
         Len(more) = Len(log) + 1, more[Len(log) + 1] = entry,
         \A n \in 1..Len(log) : more[n] = log[n]
  PROVE  \E g : /\ Replays(g, more)
                /\ g[Len(more)] = Applied(h[Len(log)], entry)
<1>1. PICK k \in Nat : k = Len(log)
  BY LenProperties
<1>2. Len(more) = k + 1 /\ more[k + 1] = entry /\ \A n \in 1..k : more[n] = log[n]
  BY <1>1
<1> DEFINE last == Applied(h[k], entry)
           g == [n \in 0..(k + 1) |-> IF n = k + 1 THEN last ELSE h[n]]
<1>3. ASSUME NEW n \in 0..(k + 1)
      PROVE  g[n] = IF n = 0 THEN UsersAtFirst
                    ELSE Applied(g[n - 1], more[n])
  <2>1. CASE n = k + 1
    <3>1. n # 0 /\ n - 1 = k /\ k \in 0..(k + 1) /\ k # k + 1
      BY <2>1
    <3>2. g[n] = last /\ g[n - 1] = h[k] /\ more[n] = entry
      BY <1>2, <2>1, <3>1
    <3>3. QED
      BY <3>1, <3>2
  <2>2. CASE n # k + 1
    <3>1. n \in 0..k /\ g[n] = h[n] /\ (n # 0 => g[n - 1] = h[n - 1] /\ more[n] = log[n])
      BY <1>2, <2>2
    <3>2. h[n] = IF n = 0 THEN UsersAtFirst
                 ELSE Applied(h[n - 1], log[n])
      BY <1>1, <3>1 DEF Replays
    <3>3. QED
      BY <3>1, <3>2
  <2>3. QED
    BY <2>1, <2>2
<1>4. g = [n \in 0..(k + 1) |->
             IF n = 0 THEN UsersAtFirst
             ELSE Applied(g[n - 1], more[n])]
  BY <1>3
<1>5. Replays(g, more)
  BY <1>2, <1>4 DEF Replays
<1>6. g[Len(more)] = last
  BY <1>2
<1>7. QED
  BY <1>1, <1>5, <1>6

LEMMA LogStep ==
  ASSUME UsersInv, LogInv, [UserAdminNext]_userAdminVars
  PROVE  LogInv'
<1>1. PICK h : Replays(h, audits) /\ users = h[Len(audits)]
  BY DEF LogInv
<1>2. CASE UNCHANGED <<users, audits>>
  BY <1>1, <1>2 DEF LogInv
<1>3. ASSUME NEW p \in 1..Len(patches), PatchCommits(p)
      PROVE  LogInv'
  <2>1. PICK entry : entry = [user |-> patches[p].user, previous |-> patches[p].previous,
                              updated |-> patches[p].body]
    OBVIOUS
  <2>2. entry \in Entries
    BY <2>1, PatchAt DEF Entries
  <2>3. /\ audits' = Append(audits, entry)
        /\ users' = Applied(users, entry)
    BY <1>3, <2>1 DEF PatchCommits, Applied
  <2>4. audits \in Seq(Entries)
    BY DEF UsersInv, UserAdminTypes
  <2>5. PICK more : more = audits'
    OBVIOUS
  <2>6. \E g : /\ Replays(g, more)
               /\ g[Len(more)] = Applied(h[Len(audits)], entry)
    <3>1. /\ Len(more) = Len(audits) + 1 /\ more[Len(audits) + 1] = entry
          /\ \A n \in 1..Len(audits) : more[n] = audits[n]
      BY <2>2, <2>3, <2>4, <2>5, AppendProperties
    <3>2. QED
      BY <1>1, <2>4, <3>1, ReplayMore
  <2>7. QED
    BY <1>1, <2>3, <2>5, <2>6 DEF LogInv
<1>4. QED
  BY <1>2, <1>3 DEF UserAdminNext, userAdminVars, ChangeUser, ListFocused, ListServed, ListArrived,
     ListFailed, PatchAuthenticated, PatchReads, PatchLocks, PatchFails, PatchAnswered, PatchAnswerLost

LEMMA LogFirst == UserAdminInit => LogInv
<1> SUFFICES ASSUME UserAdminInit PROVE LogInv
  OBVIOUS
<1>1. users = UsersAtFirst /\ audits = << >> /\ Len(audits) = 0
  BY EmptySeq DEF UserAdminInit, UsersAtFirst
<1> DEFINE h == [n \in 0..0 |-> UsersAtFirst]
<1>2. h = [n \in 0..0 |-> IF n = 0 THEN UsersAtFirst
                          ELSE Applied(h[n - 1], audits[n])]
  <2>1. \A n \in 0..0 : n = 0
    OBVIOUS
  <2>2. QED
    BY <2>1
<1>3. Replays(h, audits) /\ users = h[Len(audits)]
  BY <1>1, <1>2 DEF Replays
<1>4. QED
  BY <1>3 DEF LogInv

(* Induction over the numbers in a set.                                    *)
LEMMA SetInduction ==
  ASSUME NEW T, 0 \in T, \A n \in Nat : n \in T => n + 1 \in T
  PROVE  Nat \subseteq T
<1> SUFFICES ASSUME Nat \ T # {} PROVE FALSE
  OBVIOUS
<1>1. IsWellFoundedOn(OpToRel(<, Nat), Nat)
  BY NatLessThanWellFounded
<1>2. PICK x \in Nat \ T : \A y \in Nat \ T : ~(<<y, x>> \in OpToRel(<, Nat))
  BY <1>1, WFMin
<1>3. \A y \in Nat \ T : ~(y < x)
  BY <1>2 DEF OpToRel
<1>4. x # 0 /\ x - 1 \in Nat /\ x - 1 < x /\ (x - 1) + 1 = x
  OBVIOUS
<1>5. QED
  BY <1>3, <1>4

LEMMA ReplayUnique ==
  ASSUME NEW log \in Seq(Entries), NEW g, NEW h, Replays(g, log), Replays(h, log)
  PROVE  g[Len(log)] = h[Len(log)]
<1>1. PICK k \in Nat : k = Len(log)
  BY LenProperties
<1>2. \A n \in 0..k :
        /\ g[n] = IF n = 0 THEN UsersAtFirst
                  ELSE Applied(g[n - 1], log[n])
        /\ h[n] = IF n = 0 THEN UsersAtFirst
                  ELSE Applied(h[n - 1], log[n])
  BY <1>1 DEF Replays
<1> DEFINE T == {n \in Nat : n <= k => g[n] = h[n]}
<1>3. 0 \in T
  <2>1. 0 \in 0..k
    OBVIOUS
  <2>2. QED
    BY <1>2, <2>1
<1>4. ASSUME NEW n \in Nat, n \in T
      PROVE  n + 1 \in T
  <2> SUFFICES ASSUME n + 1 <= k PROVE g[n + 1] = h[n + 1]
    OBVIOUS
  <2>1. n + 1 \in 0..k /\ n + 1 # 0 /\ (n + 1) - 1 = n /\ g[n] = h[n]
    BY <1>4
  <2>2. /\ g[n + 1] = Applied(g[(n + 1) - 1], log[n + 1])
        /\ h[n + 1] = Applied(h[(n + 1) - 1], log[n + 1])
    BY <1>2, <2>1
  <2>3. QED
    BY <2>1, <2>2
<1>5. k \in T
  BY <1>3, <1>4, SetInduction
<1>6. QED
  BY <1>1, <1>5

LEMMA LogReplays ==
  ASSUME UsersInv, LogInv
  PROVE  AuditReplays
<1>1. PICK h : Replays(h, audits) /\ users = h[Len(audits)]
  BY DEF LogInv
<1> DEFINE replay == CHOOSE r : Replays(r, audits)
<1>2. Replays(replay, audits)
  BY <1>1
<1>3. audits \in Seq(Entries)
  BY DEF UsersInv, UserAdminTypes
<1> HIDE DEF replay
<1>4. users = replay[Len(audits)]
  BY <1>1, <1>2, <1>3, ReplayUnique
<1>5. QED
  BY <1>4 DEF AuditReplays, replay, Replays, UsersAtFirst, Applied

-----------------------------------------------------------------------------
(* The review queue: the inductive invariant                               *)

Listings == UNION {[1..n -> Pairs] : n \in 0..PageSize}

Undecided == {p \in Pairs : pairs[p] \in {"none", "pending"}}

(* A list without acknowledged pairs.                                      *)
Clean(list) == list \in Listings /\ \A i \in 1..Len(list) : list[i] \notin told

ReviewTypes ==
  /\ pairs \in [Pairs -> {"none", "pending", "decidedByAnother"} \cup Decisions]
  /\ decides \in Seq([pair : Pairs, decision : Decisions, at : {"sent", "committed"}])
  /\ queue \in [data : Listings \cup {None}, at : {"idle", "asked", "served"},
                reply : Listings \cup {None}, error : BOOLEAN]
  /\ told \in SUBSET Pairs

(* What is acknowledged, or about to be, has been decided, and there is a  *)
(* list to fetch again; a list that is served or has settled is clean.     *)
ReviewInv ==
  /\ ReviewTypes
  /\ told \cap Undecided = {}
  /\ \A i \in 1..Len(decides) :
       /\ decides[i].at = "committed" => decides[i].pair \notin Undecided
       /\ queue.data # None
  /\ queue.at = "served" => Clean(queue.reply)
  /\ Settled(queue) => Clean(queue.data)

LEMMA PageSizeType == PageSize \in Nat \ {0}
BY ReviewAssumption

LEMMA NoneIsNoListing == None \notin Listings
BY ReviewAssumption DEF Listings

(* Every rank up to the number of its elements is that of one in a finite  *)
(* set of numbers: ranks are different, and there are as many.             *)
LEMMA Ranked ==
  ASSUME NEW set \in SUBSET Pairs
  PROVE  /\ Cardinality(set) \in Nat
         /\ \A i \in 1..Cardinality(set) :
              \E p \in set : Cardinality({q \in set : q <= p}) = i
<1>1. IsFiniteSet(set) /\ Cardinality(set) \in Nat /\ set \subseteq Nat
  BY ReviewAssumption, FS_Subset, FS_CardinalityType
<1> DEFINE below(p) == {q \in set : q <= p}
           size == Cardinality(set)
           rank == [p \in set |-> Cardinality(below(p))]
<1>2. ASSUME NEW p \in set
      PROVE  IsFiniteSet(below(p)) /\ Cardinality(below(p)) \in 1..size
  <2>1. below(p) \subseteq set /\ p \in below(p)
    BY <1>1
  <2>2. /\ IsFiniteSet(below(p)) /\ Cardinality(below(p)) <= size
        /\ Cardinality(below(p)) \in Nat
    BY <1>1, <2>1, FS_Subset, FS_CardinalityType
  <2>3. Cardinality(below(p)) # 0
    BY <2>1, <2>2, FS_EmptySet
  <2>4. QED
    BY <1>1, <2>2, <2>3
<1>3. ASSUME NEW p \in set, NEW q \in set, p < q
      PROVE  Cardinality(below(p)) # Cardinality(below(q))
  <2>1. p \in Nat /\ q \in Nat
    BY <1>1
  <2>2. ASSUME NEW z \in below(p) PROVE z \in below(q)
    <3>1. z \in set /\ z \in Nat /\ z <= p
      BY <1>1
    <3>2. z <= q
      BY <1>3, <2>1, <3>1
    <3>3. QED
      BY <3>1, <3>2
  <2>3. q \in below(q) /\ q \notin below(p)
    BY <1>3, <2>1
  <2>4. below(p) # below(q)
    BY <2>3
  <2>5. below(p) \subseteq below(q) /\ IsFiniteSet(below(q))
    BY <1>2, <2>2
  <2> HIDE DEF below
  <2>6. QED
    BY <2>4, <2>5, FS_Subset
<1>4. rank \in Injection(set, 1..size)
  <2>1. rank \in [set -> 1..size]
    BY <1>2
  <2>2. ASSUME NEW p \in set, NEW q \in set, rank[p] = rank[q]
        PROVE  p = q
    <3>1. p \in Nat /\ q \in Nat
      BY <1>1
    <3>2. ~(p < q) /\ ~(q < p)
      BY <1>3, <2>2
    <3>3. QED
      BY <3>1, <3>2
  <2>3. QED
    BY <2>1, <2>2 DEF Injection, IsInjective
<1>5. IsFiniteSet(1..size) /\ Cardinality(1..size) = size
  BY <1>1, FS_Interval
<1>6. rank \in Surjection(set, 1..size)
  BY <1>4, <1>5, FS_Injection
<1>7. QED
  BY <1>1, <1>6 DEF Surjection

(* What the API lists are pending pairs.                                   *)
LEMMA ListsPending ==
  /\ PendingList \in Listings
  /\ \A i \in 1..Len(PendingList) : PendingList[i] \in Pairs /\ pairs[PendingList[i]] = "pending"
<1> DEFINE set == {p \in Pairs : pairs[p] = "pending"}
<1>1. PICK size : size = IF Cardinality(set) < PageSize THEN Cardinality(set) ELSE PageSize
  OBVIOUS
<1>2. set \in SUBSET Pairs
  OBVIOUS
<1>3. /\ Cardinality(set) \in Nat
      /\ \A i \in 1..Cardinality(set) : \E p \in set : Cardinality({q \in set : q <= p}) = i
  <2> HIDE DEF set
  <2>1. QED
    BY <1>2, Ranked
<1>4. size \in 0..PageSize /\ \A i \in 1..size : i \in 1..Cardinality(set)
  <2>1. PICK c \in Nat : c = Cardinality(set)
    BY <1>3
  <2>2. size = IF c < PageSize THEN c ELSE PageSize
    BY <1>1, <2>1
  <2>3. size \in 0..PageSize /\ \A i \in 1..size : i \in 1..c
    BY <2>2, PageSizeType
  <2>4. QED
    BY <2>1, <2>3
<1> DEFINE nth(i) == CHOOSE p \in set : Cardinality({q \in set : q <= p}) = i
<1>5. \A i \in 1..size : nth(i) \in set
  BY <1>3, <1>4
<1>6. PendingList = [i \in 1..size |-> nth(i)]
  BY <1>1 DEF PendingList, Page
<1> HIDE DEF set, nth
<1>7. PendingList \in [1..size -> Pairs] /\ Len(PendingList) = size
  BY <1>2, <1>4, <1>5, <1>6
<1>8. \A i \in 1..size : PendingList[i] \in set
  BY <1>5, <1>6
<1>9. QED
  BY <1>4, <1>7, <1>8 DEF Listings, set

LEMMA DecideAt ==
  ASSUME ReviewInv, NEW i \in 1..Len(decides)
  PROVE  decides[i].pair \in Pairs /\ decides[i].decision \in Decisions
<1>1. decides[i] \in [pair : Pairs, decision : Decisions, at : {"sent", "committed"}]
  BY ElementOfSeq DEF ReviewInv, ReviewTypes
<1>2. QED
  BY <1>1

-----------------------------------------------------------------------------
(* The review queue: every step preserves it                               *)

(* A key or a button: there is a list, and the pair is one of its items.   *)
LEMMA DecideInv ==
  ASSUME ReviewInv, NEW i \in 1..Len(Items), NEW d \in Decisions, Decide(Items[i], d)
  PROVE  ReviewInv'
<1>1. queue.data # None /\ queue.data \in Listings /\ Items = queue.data
  <2>1. CASE queue.data = None
    BY <2>1, EmptySeq DEF Items
  <2>2. CASE queue.data # None
    BY <2>2 DEF Items, ReviewInv, ReviewTypes
  <2>3. QED
    BY <2>1, <2>2
<1>2. Items[i] \in Pairs
  <2>1. PICK n \in 0..PageSize : Items \in [1..n -> Pairs]
    BY <1>1 DEF Listings
  <2>2. n \in Nat
    BY PageSizeType
  <2>3. Len(Items) = n
    BY <2>1, <2>2, FunctionIsSeq
  <2>4. QED
    BY <2>1, <2>3
<1>3. PICK new \in [pair : Pairs, decision : Decisions, at : {"sent", "committed"}] :
        /\ decides' = Append(decides, new) /\ new.at = "sent"
        /\ UNCHANGED <<pairs, queue, told>>
  BY <1>2 DEF Decide
<1>4. /\ decides' \in Seq([pair : Pairs, decision : Decisions, at : {"sent", "committed"}])
      /\ Len(decides') = Len(decides) + 1 /\ decides'[Len(decides) + 1] = new
      /\ \A k \in 1..Len(decides) : decides'[k] = decides[k]
      /\ Len(decides) \in Nat
  BY <1>3, AppendProperties, LenProperties DEF ReviewInv, ReviewTypes
<1>5. ASSUME NEW k \in 1..Len(decides')
      PROVE  decides'[k].at = "committed" => decides'[k].pair \notin Undecided
  BY <1>3, <1>4 DEF ReviewInv
<1>6. QED
  BY <1>1, <1>3, <1>4, <1>5 DEF ReviewInv, ReviewTypes, Undecided, Clean

(* A mutation is over; the list is fetched again if it was acknowledged.   *)
LEMMA OverInv ==
  ASSUME ReviewInv, NEW i \in 1..Len(decides), DecideAnswered(i) \/ DecideFails(i)
  PROVE  ReviewInv'
<1>1. PICK less : less = SubSeq(decides, 1, i - 1) \o SubSeq(decides, i + 1, Len(decides))
  OBVIOUS
<1>2. decides' = less /\ pairs' = pairs
  BY <1>1 DEF DecideAnswered, DecideFails, Over
<1>3. /\ less \in Seq([pair : Pairs, decision : Decisions, at : {"sent", "committed"}])
      /\ \A k \in 1..Len(less) : \E n \in 1..Len(decides) : less[k] = decides[n]
  <2>1. decides \in Seq([pair : Pairs, decision : Decisions, at : {"sent", "committed"}])
    BY DEF ReviewInv, ReviewTypes
  <2> HIDE DEF ReviewInv
  <2>2. QED
    BY <1>1, <2>1, Removed
<1>4. queue.data # None
  BY DEF ReviewInv
<1>5. CASE DecideFails(i)
  <2>1. UNCHANGED <<queue, told>>
    BY <1>5 DEF DecideFails
  <2>2. QED
    BY <1>2, <1>3, <1>4, <2>1 DEF ReviewInv, ReviewTypes, Undecided, Clean
<1>6. CASE DecideAnswered(i)
  <2>1. /\ queue' = [queue EXCEPT !.at = "asked", !.reply = None]
        /\ told' = told \cup {decides[i].pair} /\ decides[i].at = "committed"
    BY <1>4, <1>6 DEF DecideAnswered, Invalidated, Refetched
  <2>2. decides[i].pair \in Pairs /\ decides[i].pair \notin Undecided
    BY <2>1, DecideAt DEF ReviewInv
  <2>3. ReviewTypes' /\ queue'.data = queue.data /\ queue'.at = "asked"
    BY <1>2, <1>3, <2>1, <2>2 DEF ReviewInv, ReviewTypes
  <2>4. QED
    BY <1>2, <1>3, <1>4, <2>1, <2>2, <2>3 DEF ReviewInv, Undecided, Settled
<1>7. QED
  BY <1>5, <1>6

(* A decision commits.                                                     *)
LEMMA DecideCommitsInv ==
  ASSUME ReviewInv, NEW i \in 1..Len(decides), DecideCommits(i)
  PROVE  ReviewInv'
<1>1. PICK x \in Pairs, d \in Decisions : x = decides[i].pair /\ d = decides[i].decision
  BY DecideAt
<1>2. /\ pairs' = [pairs EXCEPT ![x] = d]
      /\ decides' = [decides EXCEPT ![i].at = "committed"]
      /\ UNCHANGED <<queue, told>>
  BY <1>1 DEF DecideCommits
<1>3. Undecided' \subseteq Undecided \ {x}
  BY <1>2, ReviewAssumption DEF Undecided, ReviewInv, ReviewTypes
<1>4. PICK n \in Nat : n = Len(decides)
  BY LenProperties DEF ReviewInv, ReviewTypes
<1> DEFINE D == [pair : Pairs, decision : Decisions, at : {"sent", "committed"}]
<1>5. decides \in [1..n -> D]
  BY <1>4, LenProperties DEF ReviewInv, ReviewTypes
<1>6. /\ decides' \in [1..n -> D] /\ decides'[i].pair = x
      /\ \A k \in 1..n : k # i => decides'[k] = decides[k]
  BY <1>1, <1>2, <1>4, <1>5
<1>7. decides' \in Seq(D) /\ Len(decides') = n
  BY <1>6, FunctionIsSeq
<1>8. ASSUME NEW k \in 1..n
      PROVE  /\ decides'[k].at = "committed" => decides'[k].pair \notin Undecided'
             /\ queue.data # None
  BY <1>3, <1>4, <1>6 DEF ReviewInv
<1>9. ReviewTypes'
  BY <1>2, <1>7 DEF ReviewInv, ReviewTypes
<1>10. QED
  BY <1>2, <1>3, <1>7, <1>8, <1>9 DEF ReviewInv, Clean

(* Others decide pairs, ingestion queues one.                              *)
LEMMA OtherStepInv ==
  ASSUME ReviewInv, NEW p \in Pairs, OtherDecides(p) \/ PairQueued(p)
  PROVE  ReviewInv'
<1>1. UNCHANGED <<queue, decides, told>>
  BY DEF OtherDecides, PairQueued
<1>2. pairs[p] \in {"none", "pending"}
  BY DEF OtherDecides, PairQueued
<1>3. /\ pairs' \in [Pairs -> {"none", "pending", "decidedByAnother"} \cup Decisions]
      /\ \A q \in Pairs : q # p => pairs'[q] = pairs[q]
  BY DEF OtherDecides, PairQueued, ReviewInv, ReviewTypes
<1>4. Undecided' \subseteq Undecided
  BY <1>2, <1>3 DEF Undecided
<1>5. QED
  BY <1>1, <1>3, <1>4 DEF ReviewInv, ReviewTypes, Clean

(* The list is fetched.                                                    *)
LEMMA QueueInv ==
  ASSUME ReviewInv, QueueFocused \/ QueueServed \/ QueueArrived \/ QueueFailed
  PROVE  ReviewInv'
<1>1. UNCHANGED <<pairs, decides, told>> /\ ReviewTypes
  BY DEF QueueFocused, QueueServed, QueueArrived, QueueFailed, ReviewInv
<1>2. CASE QueueFocused
  <2>1. queue' = [queue EXCEPT !.at = "asked", !.reply = None]
    BY <1>2 DEF QueueFocused, Polled, Refetched
  <2>2. QED
    BY <1>1, <2>1 DEF ReviewInv, ReviewTypes, Undecided, Settled
<1>3. CASE QueueServed
  <2>1. PICK list : list = PendingList
    OBVIOUS
  <2>2. queue' = [queue EXCEPT !.at = "served", !.reply = list]
    BY <1>3, <2>1 DEF QueueServed, Served
  <2>3. list \in Listings /\ \A i \in 1..Len(list) : list[i] \in Undecided
    BY <2>1, ListsPending DEF Undecided
  <2>4. Clean(list)
    BY <2>3 DEF Clean, ReviewInv
  <2>5. QED
    BY <1>1, <2>2, <2>3, <2>4 DEF ReviewInv, ReviewTypes, Undecided, Settled, Clean
<1>4. CASE QueueArrived
  <2>1. queue' = [queue EXCEPT !.at = "idle", !.data = queue.reply, !.reply = None, !.error = FALSE]
    BY <1>4 DEF QueueArrived, Arrived
  <2>2. queue.reply \in Listings /\ queue.reply # None /\ Clean(queue.reply)
    BY <1>4, NoneIsNoListing DEF QueueArrived, ReviewInv, Clean
  <2>3. QED
    BY <1>1, <2>1, <2>2 DEF ReviewInv, ReviewTypes, Undecided, Settled, Clean
<1>5. CASE QueueFailed
  <2>1. queue' = [queue EXCEPT !.at = "idle", !.reply = None, !.error = TRUE]
    BY <1>5 DEF QueueFailed, Failed
  <2>2. QED
    BY <1>1, <2>1 DEF ReviewInv, ReviewTypes, Undecided, Settled
<1>6. QED
  BY <1>2, <1>3, <1>4, <1>5

LEMMA ReviewStep ==
  ASSUME ReviewInv, [ReviewNext]_reviewVars
  PROVE  ReviewInv'
<1>1. ASSUME NEW d \in Decisions, DecideKey(d) PROVE ReviewInv'
  <2>1. focus + 1 \in 1..Len(Items) /\ Decide(Items[focus + 1], d)
    BY <1>1 DEF DecideKey, HasFocused, Focused
  <2>2. QED
    BY <2>1, DecideInv
<1>2. ASSUME UNCHANGED <<pairs, queue, decides, told>> PROVE ReviewInv'
  BY <1>2 DEF ReviewInv, ReviewTypes, Undecided, Clean
<1>3. ASSUME NEW i \in 1..Len(Items), ClickItem(i) PROVE ReviewInv'
  BY <1>2, <1>3 DEF ClickItem
<1>4. ASSUME NEW i \in 1..Len(Items), NEW d \in Decisions, ClickButton(i, d) PROVE ReviewInv'
  BY <1>4, DecideInv DEF ClickButton
<1>5. ASSUME ArrowDown \/ ArrowUp \/ Render \/ UNCHANGED reviewVars PROVE ReviewInv'
  BY <1>2, <1>5 DEF ArrowDown, ArrowUp, Render, reviewVars
<1>6. ASSUME QueueFocused \/ QueueServed \/ QueueArrived \/ QueueFailed PROVE ReviewInv'
  BY <1>6, QueueInv
<1>7. ASSUME NEW i \in 1..Len(decides), DecideAnswered(i) \/ DecideFails(i) PROVE ReviewInv'
  BY <1>7, OverInv
<1>8. ASSUME NEW i \in 1..Len(decides), DecideCommits(i) PROVE ReviewInv'
  BY <1>8, DecideCommitsInv
<1>9. ASSUME NEW p \in Pairs, PairQueued(p) \/ OtherDecides(p) PROVE ReviewInv'
  BY <1>9, OtherStepInv
<1>10. QED
  BY <1>1, <1>3, <1>4, <1>5, <1>6, <1>7, <1>8, <1>9 DEF ReviewNext

LEMMA ReviewFirst == ReviewInit => ReviewInv
<1> SUFFICES ASSUME ReviewInit PROVE ReviewInv
  OBVIOUS
<1>1. /\ pairs \in [Pairs -> {"none", "pending", "decidedByAnother"} \cup Decisions]
      /\ decides = << >> /\ told = {} /\ queue = Mounted
  BY DEF ReviewInit
<1>2. decides \in Seq([pair : Pairs, decision : Decisions, at : {"sent", "committed"}])
      /\ Len(decides) = 0
  BY <1>1, EmptySeq
<1>3. ReviewTypes
  BY <1>1, <1>2 DEF ReviewTypes, Mounted
<1>4. QED
  BY <1>1, <1>2, <1>3 DEF ReviewInv, Settled, Mounted

-----------------------------------------------------------------------------
(* Every page in every behaviour of the client                             *)

LEMMA PageSteps ==
  ASSUME [Next]_vars
  PROVE  /\ [UserAdminNext]_userAdminVars /\ [ReviewNext]_reviewVars
         /\ [IntakeNext]_intakeVars /\ [FormsNext]_formsVars
BY DEF Next, vars

LEMMA IntakeInvariant == Spec => []IntakeInv
<1>1. Init => IntakeInv
  BY IntakeFirst DEF Init
<1>2. IntakeInv /\ [Next]_vars => IntakeInv'
  BY IntakeStep, PageSteps
<1>3. QED
  BY <1>1, <1>2, PTL DEF Spec

LEMMA FormsInvariant == Spec => []FormsInv
<1>1. Init => FormsInv
  BY FormsFirst DEF Init
<1>2. FormsInv /\ [Next]_vars => FormsInv'
  BY FormsStep, PageSteps
<1>3. QED
  BY <1>1, <1>2, PTL DEF Spec

LEMMA UsersInvariant == Spec => [](UsersInv /\ LogInv)
<1>1. Init => UsersInv /\ LogInv
  BY UsersFirst, LogFirst DEF Init
<1>2. (UsersInv /\ LogInv) /\ [Next]_vars => (UsersInv /\ LogInv)'
  BY UsersStep, LogStep, PageSteps
<1>3. QED
  BY <1>1, <1>2, PTL DEF Spec

LEMMA ReviewInvariant == Spec => []ReviewInv
<1>1. Init => ReviewInv
  BY ReviewFirst DEF Init
<1>2. ReviewInv /\ [Next]_vars => ReviewInv'
  BY ReviewStep, PageSteps
<1>3. QED
  BY <1>1, <1>2, PTL DEF Spec

-----------------------------------------------------------------------------
(* Theorems                                                                *)

(* In whatever order kind, source, template and file are chosen, also      *)
(* while an upload is under way, no upload names a template that is not    *)
(* the source's own; the server does not check it.                         *)
THEOREM FormKeepsRunsSound == Spec => []RunMatchesItsSource
<1>1. IntakeInv => RunMatchesItsSource
  BY DEF IntakeInv, TemplatesFit, RunMatchesItsSource
<1>2. QED
  BY <1>1, IntakeInvariant, PTL

(* A picked file becomes at most one run whose upload was not lost: the    *)
(* form gives the file up when the answer comes, and the button is         *)
(* disabled while an upload is under way.                                  *)
THEOREM PicksBecomeOneRun == Spec => []OneRunPerPick
<1>1. IntakeInv => OneRunPerPick
  <2> SUFFICES ASSUME IntakeInv, NEW k \in 1..picks
               PROVE  Cardinality({r \in 1..Len(runs) : runs[r].pick = k /\ runs[r].answer # "lost"}) <= 1
    BY DEF OneRunPerPick
  <2> DEFINE S == {r \in 1..Len(runs) : runs[r].pick = k /\ runs[r].answer # "lost"}
  <2>1. \A x, y \in S : x = y
    BY DEF IntakeInv, PicksUsedOnce
  <2> HIDE DEF S
  <2>2. Cardinality(S) <= 1
    BY <2>1, AtMostOne
  <2>3. QED
    BY <2>2 DEF S
<1>2. QED
  BY <1>1, IntakeInvariant, PTL

(* A settled list shows every row its form was told it had created.        *)
THEOREM ListsShowOwnRows == Spec => []OwnRowsListed
<1>1. FormsInv => OwnRowsListed
  BY DEF FormsInv, RowsListed, OwnRowsListed
<1>2. QED
  BY <1>1, FormsInvariant, PTL

(* A settled list of users includes every change its tab was told had      *)
(* succeeded, although lists read before it may arrive after it.           *)
THEOREM ListsShowOwnChanges == Spec => []OwnChangesShown
<1>1. UsersInv => OwnChangesShown
  <2> SUFFICES ASSUME UsersInv, NEW a \in Admins, Settled(userLists[a]), NEW p \in 1..Len(patches),
                      patches[p].by = a, patches[p].at = "answered"
               PROVE  userLists[a].data.changes >= patches[p].change
    BY DEF OwnChangesShown
  <2>1. userLists[a].data # None /\ Told(patches, a, userLists[a].data.changes)
    BY DEF UsersInv, ListsCurrent
  <2>2. patches[p].change <= userLists[a].data.changes
    BY <2>1 DEF Told
  <2>3. userLists[a].data.changes \in Nat /\ patches[p].change \in Nat
    BY <2>1, PatchAt DEF UsersInv, UserAdminTypes, ListQueries, Lists
  <2>4. QED
    BY <2>2, <2>3
<1>2. QED
  BY <1>1, UsersInvariant, PTL

(* Applied in the log's order, the audit entries give the committed rows,  *)
(* however the changes of several admins overlap.                          *)
THEOREM LogAccountsForUsers == Spec => []AuditReplays
<1>1. UsersInv /\ LogInv => AuditReplays
  BY LogReplays
<1>2. QED
  BY <1>1, UsersInvariant, PTL

(* A pair whose decision was acknowledged is not in the list once it has   *)
(* settled, with however many decisions under way and fetches overtaken    *)
(* (ResolutionQueuePage.tsx).                                              *)
THEOREM DecidedLeaveTheList == Spec => []DecidedPairsLeave
<1>1. ReviewInv => DecidedPairsLeave
  <2> SUFFICES ASSUME ReviewInv, Settled(queue), NEW i \in 1..Len(Items)
               PROVE  Items[i] \notin told
    BY DEF DecidedPairsLeave
  <2>1. Clean(queue.data)
    BY DEF ReviewInv
  <2>2. queue.data # None
    BY <2>1, NoneIsNoListing DEF Clean
  <2>3. QED
    BY <2>1, <2>2 DEF Items, Clean
<1>2. QED
  BY <1>1, ReviewInvariant, PTL
=============================================================================
