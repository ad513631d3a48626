-------------------------- MODULE SubmissionProofs --------------------------
(***************************************************************************)
(* Theorems about Submission, for every set of prompts and environments.   *)
(***************************************************************************)
EXTENDS Submission, SequenceTheorems, WellFoundedInduction, TLAPS

-----------------------------------------------------------------------------
(* Extremal elements.  Min and Max are those of FiniteSetsExt.             *)

\* A set of naturals that is not empty has its least element, Min.
LEMMA MinOfNaturals ==
    ASSUME NEW S, S \subseteq Nat, S # {}
    PROVE  Min(S) \in S /\ \A i \in S : Min(S) <= i
<1> DEFINE R == OpToRel(<, Nat)
<1>1. IsWellFoundedOn(R, Nat)
  BY NatLessThanWellFounded
<1> HIDE DEF R
<1>2. PICK m \in S : \A i \in S : ~(<<i, m>> \in R)
  BY <1>1, WFMin
<1>3. \A i \in S : ~(i < m)
  BY <1>2 DEF R, OpToRel
<1>4. \A i \in S : m <= i
  BY <1>3
<1> QED
  BY <1>4 DEF Min

\* A set of naturals that has a bound and is not empty has its greatest, Max.
LEMMA MaxOfNaturals ==
    ASSUME NEW n \in Nat, NEW S, S \subseteq 0..n, S # {}
    PROVE  Max(S) \in S
<1> DEFINE T == {n - i : i \in S}
<1>1. T \subseteq Nat /\ T # {}
  <2>1. PICK i \in S : TRUE
    OBVIOUS
  <2>2. n - i \in T
    BY <2>1
  <2>3. \A j \in 0..n : n - j \in Nat
    OBVIOUS
  <2>4. T \subseteq Nat
    BY <2>3
  <2> QED
    BY <2>2, <2>4
<1>2. Min(T) \in T /\ \A i \in T : Min(T) <= i
  BY <1>1, MinOfNaturals
<1>3. PICK m \in S : Min(T) = n - m
  BY <1>2
<1>4. \A i \in S : n - m <= n - i
  BY <1>2, <1>3
<1>5. \A i \in S : m >= i
  BY <1>4
<1> QED
  BY <1>5 DEF Max

-----------------------------------------------------------------------------
(* Reading a dataset from a prompt (portal/backend.py)                     *)

LEMMA SkipLinesType ==
    ASSUME NEW s \in Seq(STRING)
    PROVE  SkipLines(s) \in Seq(STRING)
<1> DEFINE text == {i \in DOMAIN s : s[i] # "line"}
<1>1. CASE text = {}
  BY <1>1 DEF SkipLines, None
<1>2. CASE text # {}
  <2>1. Min(text) \in text
    BY <1>2, MinOfNaturals
  <2>2. Min(text) \in 1..Len(s)
    BY <2>1
  <2> HIDE DEF text
  <2>3. SubSeq(s, Min(text), Len(s)) \in Seq(STRING)
    BY <2>2
  <2> QED
    BY <1>2, <2>3 DEF SkipLines, text
<1> QED
  BY <1>1, <1>2

LEMMA RStripType ==
    ASSUME NEW s \in Seq(STRING)
    PROVE  RStrip(s) \in Seq(STRING)
<1> DEFINE ends == {0} \cup {i \in DOMAIN s : s[i] # "stop"}
<1>1. Len(s) \in Nat /\ ends \subseteq 0..Len(s) /\ ends # {}
  OBVIOUS
<1>2. Max(ends) \in 0..Len(s)
  BY <1>1, MaxOfNaturals
<1> HIDE DEF ends
<1>3. SubSeq(s, 1, Max(ends)) \in Seq(STRING)
  BY <1>2
<1> QED
  BY <1>3 DEF RStrip, ends

LEMMA StripType ==
    ASSUME NEW s \in Seq(STRING)
    PROVE  Strip(s) \in Seq(STRING)
<1> DEFINE text == {i \in DOMAIN s : s[i] # "blank"}
<1>1. CASE text = {}
  BY <1>1 DEF Strip, None
<1>2. CASE text # {}
  <2>1. Len(s) \in Nat /\ text \subseteq 0..Len(s) /\ text \subseteq Nat
    OBVIOUS
  <2>2. Min(text) \in text /\ Max(text) \in text
    BY <1>2, <2>1, MinOfNaturals, MaxOfNaturals
  <2>3. Min(text) \in 1..Len(s) /\ Max(text) \in 1..Len(s)
    BY <2>2
  <2> HIDE DEF text
  <2>4. SubSeq(s, Min(text), Max(text)) \in Seq(STRING)
    BY <2>3
  <2> QED
    BY <1>2, <2>4 DEF Strip, text
<1> QED
  BY <1>1, <1>2

\* A dataset read from a prompt is a token sequence, as the prompt is.
LEMMA DatasetType ==
    ASSUME NEW prompt \in Seq(STRING)
    PROVE  DatasetFromPrompt(prompt) \in Seq(STRING)
<1> DEFINE After(i) == SkipLines(SubSeq(prompt, i + 1, Len(prompt)))
           matches == {i \in DOMAIN prompt :
                         /\ prompt[i] = "rucio"
                         /\ After(i) # None /\ "line" \notin Range(After(i))}
<1>0. DatasetFromPrompt(prompt) = IF matches = {} THEN None
                                  ELSE RStrip(After(Min(matches)))
  BY DEF DatasetFromPrompt
<1>1. CASE matches = {}
  <2>1. DatasetFromPrompt(prompt) = None
    BY <1>0, <1>1
  <2> QED
    BY <2>1 DEF None
<1>2. CASE matches # {}
  <2>1. matches \subseteq Nat
    OBVIOUS
  <2>2. Min(matches) \in matches
    BY <1>2, <2>1, MinOfNaturals
  <2>3. Min(matches) \in DOMAIN prompt
    BY <2>2
  <2> HIDE DEF matches
  <2>4. SubSeq(prompt, Min(matches) + 1, Len(prompt)) \in Seq(STRING)
    BY <2>3
  <2>5. RStrip(After(Min(matches))) \in Seq(STRING)
    BY <2>4, SkipLinesType, RStripType
  <2> QED
    BY <1>0, <1>2, <2>5
<1> QED
  BY <1>1, <1>2

\* No dataset is read from an empty prompt.
LEMMA EmptyNamesNone == DatasetFromPrompt(None) = None
<1>1. DOMAIN None = {}
  BY DEF None
<1> QED
  BY <1>1 DEF DatasetFromPrompt

\* What a candidate offers are questions, whichever of its files they come from.
LEMMA CandidateType ==
    ASSUME NEW candidate \in Candidate
    PROVE  CandidateQuestions(candidate) \in Seq(Question)
<1> DEFINE files == candidate.fallbacks
           readable == {i \in DOMAIN files : files[i].content # "none"}
<1>1. candidate.direct \in File /\ files \in Seq(File)
  BY DEF Candidate
<1>2. \A file \in File : QuestionsOf(file) \in Seq(Question)
  BY DEF File, QuestionsOf
<1>3. FallbackQuestions(files) \in Seq(Question)
  <2>1. CASE readable = {}
    BY <2>1 DEF FallbackQuestions
  <2>2. CASE readable # {}
    <3>1. readable \subseteq Nat
      BY <1>1
    <3>2. Min(readable) \in DOMAIN files
      BY <2>2, <3>1, MinOfNaturals
    <3>3. \A i \in DOMAIN files : QuestionsOf(files[i]) \in Seq(Question)
      BY <1>1, <1>2
    <3>4. FallbackQuestions(files) = QuestionsOf(files[Min(readable)])
      BY <2>2 DEF FallbackQuestions
    <3> QED
      BY <3>2, <3>3, <3>4
  <2> QED
    BY <2>1, <2>2
<1> QED
  BY <1>1, <1>2, <1>3 DEF CandidateQuestions

LEMMA DefaultDatasetType ==
    ASSUME config \in Configs
    PROVE  DefaultDataset \in Seq(STRING)
<1> DEFINE Offered(i) == CandidateQuestions(config.candidates[i])
           used == {i \in DOMAIN config.candidates : Offered(i) # <<>>}
           questions == LoadExampleQuestions
           named == {i \in DOMAIN questions : QuestionDataset(questions[i]) # None}
<1>1. config.candidates \in Seq(Candidate) /\ config.default_dataset \in Seq(STRING)
  BY ConfigsAssumption
<1>2. questions \in Seq(Question)
  <2>1. CASE used = {}
    BY <2>1 DEF LoadExampleQuestions
  <2>2. CASE used # {}
    <3>1. used \subseteq Nat
      BY <1>1
    <3>2. Min(used) \in DOMAIN config.candidates
      BY <2>2, <3>1, MinOfNaturals
    <3>3. \A i \in DOMAIN config.candidates : Offered(i) \in Seq(Question)
      BY <1>1, CandidateType
    <3>4. questions = Offered(Min(used))
      BY <2>2 DEF LoadExampleQuestions
    <3> QED
      BY <3>2, <3>3, <3>4
  <2> QED
    BY <2>1, <2>2
<1>3. DefaultDataset = IF config.default_dataset # None THEN config.default_dataset
                       ELSE IF named = {} THEN None
                       ELSE QuestionDataset(questions[Min(named)])
  BY DEF DefaultDataset
<1> HIDE DEF questions
<1>4. \A i \in DOMAIN questions : QuestionDataset(questions[i]) \in Seq(STRING)
  <2> SUFFICES ASSUME NEW i \in DOMAIN questions
               PROVE  QuestionDataset(questions[i]) \in Seq(STRING)
    OBVIOUS
  <2>0. questions[i] \in Question
    BY <1>2
  <2>1. questions[i].prompt \in Seq(STRING) /\ questions[i].dataset \in Seq(STRING)
    BY <2>0 DEF Question
  <2> QED
    BY <2>1, DatasetType DEF QuestionDataset
<1>5. CASE config.default_dataset # None
  BY <1>1, <1>3, <1>5
<1>6. CASE config.default_dataset = None /\ named = {}
  <2>1. DefaultDataset = None
    BY <1>3, <1>6
  <2> QED
    BY <2>1 DEF None
<1>7. CASE config.default_dataset = None /\ named # {}
  <2>1. named \subseteq Nat
    BY <1>2
  <2>2. Min(named) \in DOMAIN questions
    BY <1>7, <2>1, MinOfNaturals
  <2> QED
    BY <1>3, <1>4, <1>7, <2>2
<1> QED
  BY <1>5, <1>6, <1>7

-----------------------------------------------------------------------------
(* The inductive invariant                                                 *)

Request == [original_prompt : Seq(STRING), resolved_dataset : Seq(STRING),
            backend_profile : Profiles]

\* A stored job is complete, and its dataset is the one its prompt names, if any.
JobInv == \A j \in {job, source} \ {NoJob} :
    /\ j \in Request
    /\ j.original_prompt # None /\ j.resolved_dataset # None
    /\ LET named == DatasetFromPrompt(j.original_prompt)
       IN named # None => j.resolved_dataset = named

FormInv ==
    /\ form \in [prompt : Seq(STRING), dataset : Seq(STRING),
                 profile : Profiles \cup {"unknown"}]
    /\ source # NoJob =>
          form = [prompt |-> source.original_prompt,
                  dataset |-> source.resolved_dataset,
                  profile |-> source.backend_profile]

\* The command is the one the worker builds in the present environment.
CommandInv == command # NoCommand =>
    /\ job # NoJob
    /\ command = [prompt  |-> RenderJobPrompt(job.original_prompt,
                                             job.resolved_dataset),
                  profile |-> job.backend_profile,
                  image   |-> DockerImage(job.backend_profile)]

IInv == config \in Configs /\ JobInv /\ FormInv /\ CommandInv

\* What create_job stores for a form: its dataset has a name, and a clone of the
\* job would resolve to the same one.
LEMMA SubmitStores ==
    ASSUME config \in Configs, FormInv, SubmitForm
    PROVE  /\ job' \in Request
           /\ job'.original_prompt # None /\ job'.resolved_dataset # None
           /\ LET named == DatasetFromPrompt(job'.original_prompt)
              IN named # None => job'.resolved_dataset = named
<1> DEFINE dataset == FormDataset
<1>1. form.prompt \in Seq(STRING) /\ form.dataset \in Seq(STRING)
  BY DEF FormInv
<1>2. dataset \in Seq(STRING)
  BY <1>1, DatasetType, DefaultDatasetType, StripType DEF FormDataset, ResolvedDataset
<1>3. DatasetFromPrompt(form.prompt) # None => dataset = DatasetFromPrompt(form.prompt)
  BY DEF FormDataset, ResolvedDataset
<1>4. job' = [original_prompt |-> form.prompt, resolved_dataset |-> dataset,
              backend_profile |-> form.profile]
  BY DEF SubmitForm
<1>5. form.prompt # None /\ dataset # None /\ form.profile \in Profiles
  BY DEF SubmitForm
<1> HIDE DEF dataset
<1> QED
  BY <1>1, <1>2, <1>3, <1>4, <1>5 DEF Request

LEMMA InitInv == Init => IInv
<1> SUFFICES ASSUME Init PROVE IInv
  OBVIOUS
<1>1. JobInv
  BY DEF Init, JobInv
<1>2. FormInv
  BY DEF Init, FormInv, None, Profiles
<1> QED
  BY <1>1, <1>2 DEF Init, IInv, CommandInv

LEMMA NextInv == IInv /\ [Next]_vars => IInv'
<1> SUFFICES ASSUME IInv, [Next]_vars PROVE IInv'
  OBVIOUS
<1>1. ASSUME SubmitForm PROVE IInv'
  <2>1. UNCHANGED <<config, form, source>> /\ command' = NoCommand
    BY <1>1 DEF SubmitForm
  <2>2. JobInv'
    BY <1>1, <2>1, SubmitStores DEF IInv, JobInv
  <2> QED
    BY <2>1, <2>2 DEF IInv, FormInv, CommandInv
<1>2. ASSUME NEW p \in Prompts \cup {None}, NEW d \in FormDatasets \cup {None},
             NEW f \in Profiles \cup {"unknown"}, EditForm(p, d, f)
      PROVE  IInv'
  <2>0. None \in Seq(STRING)
    BY DEF None
  <2>1. p \in Seq(STRING) /\ d \in Seq(STRING)
    BY <2>0, FormsAssumption
  <2>2. /\ form' = [prompt |-> p, dataset |-> d, profile |-> f]
        /\ source' = NoJob /\ UNCHANGED <<config, job, command>>
    BY <1>2 DEF EditForm
  <2>3. FormInv'
    BY <2>1, <2>2 DEF FormInv
  <2>4. JobInv' /\ CommandInv'
    BY <2>2 DEF IInv, JobInv, CommandInv, DockerImage
  <2> QED
    BY <2>2, <2>3, <2>4 DEF IInv
<1>3. ASSUME OpenClone PROVE IInv'
  <2>1. /\ job # NoJob /\ source' = job /\ UNCHANGED <<config, job, command>>
        /\ form' = [prompt |-> job.original_prompt, dataset |-> job.resolved_dataset,
                    profile |-> job.backend_profile]
    BY <1>3 DEF OpenClone
  <2>2. job \in Request
    BY <2>1 DEF IInv, JobInv
  <2>3. FormInv'
    BY <2>1, <2>2 DEF FormInv, Request
  <2>4. JobInv' /\ CommandInv'
    BY <2>1 DEF IInv, JobInv, CommandInv, DockerImage
  <2> QED
    BY <2>1, <2>3, <2>4 DEF IInv
<1>4. ASSUME BackendCommand PROVE IInv'
  <2>1. /\ job # NoJob /\ UNCHANGED <<config, form, source, job>>
        /\ command' = [prompt  |-> RenderJobPrompt(job.original_prompt,
                                                  job.resolved_dataset),
                       profile |-> job.backend_profile,
                       image   |-> DockerImage(job.backend_profile)]
    BY <1>4 DEF BackendCommand
  <2>2. DockerImage(job.backend_profile)' = DockerImage(job.backend_profile)
    BY <2>1 DEF DockerImage
  <2>3. CommandInv'
    BY <2>1, <2>2 DEF CommandInv
  <2> QED
    BY <2>1, <2>3 DEF IInv, JobInv, FormInv
<1>5. ASSUME NEW c \in Configs, Restart(c) PROVE IInv'
  BY <1>5 DEF Restart, IInv, JobInv, FormInv, CommandInv
<1>6. ASSUME UNCHANGED vars PROVE IInv'
  BY <1>6 DEF vars, IInv, JobInv, FormInv, CommandInv, DockerImage
<1> QED
  BY <1>1, <1>2, <1>3, <1>4, <1>5, <1>6 DEF Next

\* The invariant holds throughout.
THEOREM Invariance == Spec => []IInv
<1> QED
  BY InitInv, NextInv, PTL DEF Spec

-----------------------------------------------------------------------------
(* Theorems                                                                *)

\* Every stored job is complete, whatever is typed, cloned or configured.
THEOREM TypeCorrect == Spec => []TypeOK
<1>1. IInv => TypeOK
  <2> SUFFICES ASSUME IInv PROVE TypeOK
    OBVIOUS
  <2>1. \A j \in {job, source} \ {NoJob} :
          /\ j.original_prompt # None /\ j.resolved_dataset # None
          /\ j.backend_profile \in Profiles
    BY DEF IInv, JobInv, Request
  <2>2. command # NoCommand => job # NoJob /\ command.profile = job.backend_profile
    BY DEF IInv, CommandInv
  <2> QED
    BY <2>1, <2>2 DEF IInv, FormInv, TypeOK
<1> QED
  BY <1>1, Invariance, PTL

\* The dataset a prompt names is recorded and its prompt handed on as typed
\* (create_job, render_job_prompt).
THEOREM PromptDecides == Spec => []PromptWins
<1>1. IInv => PromptWins
  <2> SUFFICES ASSUME IInv, DatasetFromPrompt(job.original_prompt) # None
               PROVE  /\ job.resolved_dataset = DatasetFromPrompt(job.original_prompt)
                      /\ command # NoCommand => command.prompt = job.original_prompt
    BY DEF PromptWins
  <2>0. NoJob.original_prompt = None
    BY DEF NoJob
  <2>1. job # NoJob
    BY <2>0, EmptyNamesNone
  <2>2. job.resolved_dataset = DatasetFromPrompt(job.original_prompt)
    BY <2>1 DEF IInv, JobInv
  <2>3. RenderJobPrompt(job.original_prompt, job.resolved_dataset) = job.original_prompt
    BY DEF RenderJobPrompt, PromptMentionsDataset
  <2> QED
    BY <2>2, <2>3 DEF IInv, CommandInv
<1> QED
  BY <1>1, Invariance, PTL

\* A backend run gets the image of its profile or the global one
\* (docker_image_for_profile).
THEOREM ImageOfProfile == Spec => []OwnImage
<1>1. IInv => OwnImage
  <2> SUFFICES ASSUME IInv, command # NoCommand PROVE OwnImage
    BY DEF OwnImage
  <2>1. command.image = DockerImage(command.profile)
    BY DEF IInv, CommandInv
  <2> QED
    BY <2>1 DEF OwnImage, DockerImage
<1> QED
  BY <1>1, Invariance, PTL

\* Submitting an unedited clone form stores the request of the job it shows
\* (clone_job, create_job), under any later environment, but for blanks around its
\* dataset.
THEOREM ClonesRepeat == Spec => CloneRepeats
<1> DEFINE Repeats ==
      /\ job'.original_prompt = source.original_prompt
      /\ job'.backend_profile = source.backend_profile
      /\ \/ job'.resolved_dataset \in {source.resolved_dataset,
                                     Strip(source.resolved_dataset)}
         \/ Strip(source.resolved_dataset) = None
<1>1. IInv /\ [Next]_vars => [source # NoJob /\ job' # job => Repeats]_vars
  <2> SUFFICES ASSUME IInv, Next, source # NoJob, job' # job
               PROVE  Repeats
    OBVIOUS
  <2>1. SubmitForm
    BY DEF Next, EditForm, OpenClone, BackendCommand, Restart
  <2>2. LET named == DatasetFromPrompt(source.original_prompt)
        IN named # None => source.resolved_dataset = named
    BY DEF IInv, JobInv
  <2>3. /\ form.prompt = source.original_prompt
        /\ form.dataset = source.resolved_dataset
        /\ form.profile = source.backend_profile
    BY DEF IInv, FormInv
  <2>4. \/ FormDataset \in {source.resolved_dataset, Strip(source.resolved_dataset)}
        \/ Strip(source.resolved_dataset) = None
    BY <2>2, <2>3 DEF FormDataset, ResolvedDataset
  <2>5. job' = [original_prompt |-> source.original_prompt,
                resolved_dataset |-> FormDataset,
                backend_profile |-> source.backend_profile]
    BY <2>1, <2>3 DEF SubmitForm
  <2> QED
    BY <2>4, <2>5
<1> QED
  BY <1>1, Invariance, PTL DEF Spec, CloneRepeats

-----------------------------------------------------------------------------
(* What the backend is told                                                *)

\* The tokens of d stand in s, one after the other.
Carries(s, d) == \E i \in 1..Len(s) : IsPrefix(d, SubSeq(s, i, Len(s)))

\* To carry a sequence is to have its elements from some place on.
LEMMA CarriesFrom ==
    ASSUME NEW S, NEW s \in Seq(S), NEW d \in Seq(S), NEW a \in 1..Len(s),
           Len(d) <= Len(s) - a + 1, \A k \in 1..Len(d) : d[k] = s[a + k - 1]
    PROVE  Carries(s, d)
<1> DEFINE t == SubSeq(s, a, Len(s))
<1>0. Len(s) \in Nat /\ Len(d) \in Nat /\ a \in Nat
  OBVIOUS
<1>1. \A i \in a..Len(s) : s[i] \in S
  OBVIOUS
<1>2. /\ t \in Seq(S) /\ Len(t) = Len(s) - a + 1
      /\ \A i \in 1..(Len(s) - a + 1) : t[i] = s[a + i - 1]
  BY <1>0, <1>1, SubSeqProperties
<1> HIDE DEF t
<1>3. Len(d) <= Len(t) /\ \A k \in 1..Len(d) : d[k] = t[k]
  BY <1>0, <1>2
<1>4. /\ SubSeq(t, 1, Len(d)) \in Seq(S) /\ Len(SubSeq(t, 1, Len(d))) = Len(d)
      /\ \A i \in 1..Len(d) : SubSeq(t, 1, Len(d))[i] = t[i]
  <2>1. \A i \in 1..Len(d) : t[i] \in S
    BY <1>2, <1>3, <1>0
  <2>2. /\ SubSeq(t, 1, Len(d)) \in Seq(S)
        /\ Len(SubSeq(t, 1, Len(d))) = IF 1 <= Len(d) THEN Len(d) - 1 + 1 ELSE 0
        /\ \A i \in 1..(Len(d) - 1 + 1) : SubSeq(t, 1, Len(d))[i] = t[1 + i - 1]
    BY <1>0, <2>1, SubSeqProperties
  <2> QED
    BY <1>0, <2>2
<1>5. SubSeq(t, 1, Len(d)) = d
  BY <1>3, <1>4, SeqEqual
<1>6. SubSeq(d, 1, Len(d)) = d
  BY SubSeqFull
<1>7. IsPrefix(d, t)
  BY <1>3, <1>5, <1>6 DEF IsPrefix
<1> QED
  BY <1>7 DEF Carries, t

\* What is left after blank lines is the end of the sequence.
LEMMA SkipLinesEnd ==
    ASSUME NEW s \in Seq(STRING), SkipLines(s) # None
    PROVE  \E m \in 1..Len(s) : SkipLines(s) = SubSeq(s, m, Len(s))
<1> DEFINE text == {i \in DOMAIN s : s[i] # "line"}
<1>1. text # {}
  BY DEF SkipLines
<1>2. text \subseteq Nat
  OBVIOUS
<1>3. Min(text) \in text
  BY <1>1, <1>2, MinOfNaturals
<1>4. Min(text) \in 1..Len(s)
  BY <1>3
<1> QED
  BY <1>1, <1>4 DEF SkipLines

\* Stripping takes a beginning of the sequence.
LEMMA RStripBegin ==
    ASSUME NEW s \in Seq(STRING)
    PROVE  \E n \in 0..Len(s) : RStrip(s) = SubSeq(s, 1, n)
<1> DEFINE ends == {0} \cup {i \in DOMAIN s : s[i] # "stop"}
<1>1. Len(s) \in Nat /\ ends \subseteq 0..Len(s) /\ ends # {}
  OBVIOUS
<1>2. Max(ends) \in 0..Len(s)
  BY <1>1, MaxOfNaturals
<1> QED
  BY <1>2 DEF RStrip

\* The dataset read from a prompt stands in the prompt (_dataset_from_prompt).
LEMMA NamedIsInPrompt ==
    ASSUME NEW prompt \in Seq(STRING), DatasetFromPrompt(prompt) # None
    PROVE  Carries(prompt, DatasetFromPrompt(prompt))
<1> DEFINE Rest(i)  == SubSeq(prompt, i + 1, Len(prompt))
           After(i) == SkipLines(Rest(i))
           matches == {i \in DOMAIN prompt :
                         /\ prompt[i] = "rucio"
                         /\ After(i) # None /\ "line" \notin Range(After(i))}
           d == DatasetFromPrompt(prompt)
           L == Len(prompt)
<1>1. d = IF matches = {} THEN None ELSE RStrip(After(Min(matches)))
  BY DEF DatasetFromPrompt
<1>2. matches # {}
  BY <1>1
<1>3. PICK i \in DOMAIN prompt : d = RStrip(After(i)) /\ After(i) # None
  <2>1. matches \subseteq Nat
    OBVIOUS
  <2>2. Min(matches) \in matches
    BY <1>2, <2>1, MinOfNaturals
  <2> QED
    BY <1>1, <1>2, <2>2
<1>4. L \in Nat /\ i \in 1..L
  OBVIOUS
<1> HIDE DEF d, matches
<1>5. /\ Rest(i) \in Seq(STRING) /\ Len(Rest(i)) = L - i
      /\ \A k \in 1..(L - i) : Rest(i)[k] = prompt[i + k]
  <2>1. \A k \in (i + 1)..L : prompt[k] \in STRING
    BY <1>4
  <2>2. /\ Rest(i) \in Seq(STRING)
        /\ Len(Rest(i)) = IF i + 1 <= L THEN L - (i + 1) + 1 ELSE 0
        /\ \A k \in 1..(L - (i + 1) + 1) : Rest(i)[k] = prompt[(i + 1) + k - 1]
    BY <1>4, <2>1, SubSeqProperties
  <2> QED
    BY <1>4, <2>2
<1> DEFINE r == Rest(i)
<1> HIDE DEF r
<1>6. PICK m \in 1..Len(r) : After(i) = SubSeq(r, m, Len(r))
  BY <1>3, <1>5, SkipLinesEnd DEF r
<1> DEFINE u == SubSeq(r, m, Len(r))
<1>7. /\ u \in Seq(STRING) /\ Len(u) = L - i - m + 1
      /\ \A k \in 1..(L - i - m + 1) : u[k] = prompt[i + m + k - 1]
  <2>0. Len(r) = L - i /\ m \in 1..(L - i) /\ r \in Seq(STRING)
    BY <1>5, <1>6 DEF r
  <2>1. \A k \in m..Len(r) : r[k] \in STRING
    BY <2>0, <1>4
  <2>2. /\ u \in Seq(STRING)
        /\ Len(u) = IF m <= Len(r) THEN Len(r) - m + 1 ELSE 0
        /\ \A k \in 1..(Len(r) - m + 1) : u[k] = r[m + k - 1]
    BY <1>4, <2>0, <2>1, SubSeqProperties
  <2>3. \A k \in 1..(L - i - m + 1) : r[m + k - 1] = prompt[i + (m + k - 1)]
    <3>1. \A k \in 1..(L - i) : r[k] = prompt[i + k]
      BY <1>5 DEF r
    <3>2. \A k \in 1..(L - i - m + 1) : m + k - 1 \in 1..(L - i)
      BY <1>4, <2>0
    <3> QED
      BY <3>1, <3>2
  <2> QED
    BY <1>4, <2>0, <2>2, <2>3
<1> HIDE DEF u
<1>8. PICK n \in 0..Len(u) : d = SubSeq(u, 1, n)
  <2>1. d = RStrip(u)
    BY <1>3, <1>6 DEF u
  <2> QED
    BY <1>7, <2>1, RStripBegin
<1>9. /\ d \in Seq(STRING) /\ Len(d) = n /\ \A k \in 1..n : d[k] = u[k]
  <2>0. n \in Nat /\ n <= Len(u)
    BY <1>7, <1>8
  <2>1. \A k \in 1..n : u[k] \in STRING
    BY <1>7, <2>0
  <2>2. /\ SubSeq(u, 1, n) \in Seq(STRING)
        /\ Len(SubSeq(u, 1, n)) = IF 1 <= n THEN n - 1 + 1 ELSE 0
        /\ \A k \in 1..(n - 1 + 1) : SubSeq(u, 1, n)[k] = u[1 + k - 1]
    BY <2>0, <2>1, SubSeqProperties
  <2> QED
    BY <1>8, <2>0, <2>2
<1> DEFINE a == i + m
<1>10. a \in 1..L /\ n <= L - a + 1 /\ \A k \in 1..n : d[k] = prompt[a + k - 1]
  <2>0. m \in 1..(L - i)
    BY <1>5, <1>6 DEF r
  <2> QED
    BY <1>4, <1>7, <1>8, <1>9, <2>0
<1> HIDE DEF a
<1>11. Carries(prompt, d)
  BY <1>9, <1>10, CarriesFrom
<1> QED
  BY <1>11 DEF d

\* All tokens; the provers are not told that the three literals are strings.
Tokens == STRING \cup {"line", "hint", "stop"}

\* A dataset the portal adds to a prompt stands in the result (render_job_prompt).
LEMMA AddedIsInPrompt ==
    ASSUME NEW prompt \in Seq(Tokens), NEW dataset \in Seq(Tokens)
    PROVE  Carries(prompt \o <<"line", "line", "hint">> \o dataset \o <<"stop">>,
                    dataset)
<1> DEFINE head == prompt \o <<"line", "line", "hint">>
           most == head \o dataset
           all == most \o <<"stop">>
<1>1. /\ head \in Seq(Tokens) /\ Len(head) \in Nat
  <2>1. <<"line", "line", "hint">> \in Seq(Tokens)
    BY DEF Tokens
  <2>2. head \in Seq(Tokens)
    BY <2>1, ConcatProperties
  <2> HIDE DEF head
  <2> QED
    BY <2>2
<1> HIDE DEF head
<1>2. /\ most \in Seq(Tokens) /\ Len(most) = Len(head) + Len(dataset)
      /\ \A k \in 1..Len(dataset) : most[Len(head) + k] = dataset[k]
  <2>1. /\ most \in Seq(Tokens) /\ Len(most) = Len(head) + Len(dataset)
        /\ \A i \in 1..(Len(head) + Len(dataset)) :
              most[i] = IF i <= Len(head) THEN head[i] ELSE dataset[i - Len(head)]
    BY <1>1, ConcatProperties
  <2>2. Len(dataset) \in Nat
    OBVIOUS
  <2> HIDE DEF most
  <2>3. ASSUME NEW k \in 1..Len(dataset) PROVE most[Len(head) + k] = dataset[k]
    <3>1. /\ Len(head) + k \in 1..(Len(head) + Len(dataset))
          /\ ~(Len(head) + k <= Len(head)) /\ (Len(head) + k) - Len(head) = k
      BY <1>1, <2>2
    <3> QED
      BY <2>1, <3>1
  <2> QED
    BY <2>1, <2>3
<1> HIDE DEF most
<1>3. /\ all \in Seq(Tokens) /\ Len(all) = Len(most) + 1
      /\ \A k \in 1..Len(most) : all[k] = most[k]
  <2>1. <<"stop">> \in Seq(Tokens) /\ Len(<<"stop">>) = 1
    BY DEF Tokens
  <2>2. /\ all \in Seq(Tokens) /\ Len(all) = Len(most) + Len(<<"stop">>)
        /\ \A i \in 1..(Len(most) + Len(<<"stop">>)) :
              all[i] = IF i <= Len(most) THEN most[i] ELSE <<"stop">>[i - Len(most)]
    BY <1>2, <2>1, ConcatProperties
  <2>3. Len(most) \in Nat
    BY <1>2
  <2> HIDE DEF all
  <2> QED
    BY <2>1, <2>2, <2>3
<1> HIDE DEF all
<1> DEFINE a == Len(head) + 1
<1>4. /\ a \in 1..Len(all) /\ Len(dataset) <= Len(all) - a + 1
      /\ \A k \in 1..Len(dataset) : dataset[k] = all[a + k - 1]
  <2>1. Len(dataset) \in Nat
    OBVIOUS
  <2>2. \A k \in 1..Len(dataset) : a + k - 1 = Len(head) + k /\ a + k - 1 \in 1..Len(most)
    BY <1>1, <1>2, <2>1
  <2> QED
    BY <1>1, <1>2, <1>3, <2>1, <2>2
<1> HIDE DEF a
<1>5. Carries(all, dataset)
  BY <1>3, <1>4, CarriesFrom
<1> QED
  BY <1>5 DEF all, most, head

\* The prompt has a dataset word but names no dataset that can be read from it.
OnlyMentions(prompt) ==
    PromptMentionsDataset(prompt) /\ DatasetFromPrompt(prompt) = None

\* Every command tells the backend of the dataset recorded for its job, except where
\* the prompt only mentions one: the finding about untold datasets has this cause
\* and no other (create_job, render_job_prompt, _backend_command_for_job).
THEOREM UntoldOnlyIfMentioned ==
    Spec => [](OnlyMentions(job.original_prompt) \/ BackendIsTold)
<1>1. IInv => OnlyMentions(job.original_prompt) \/ BackendIsTold
  <2> SUFFICES ASSUME IInv, ~OnlyMentions(job.original_prompt), command # NoCommand
               PROVE  Carries(command.prompt, job.resolved_dataset)
    BY DEF BackendIsTold, Carries
  <2> DEFINE prompt == job.original_prompt
             dataset == job.resolved_dataset
  <2>1. /\ job \in Request /\ dataset # None
        /\ DatasetFromPrompt(prompt) # None => dataset = DatasetFromPrompt(prompt)
        /\ command.prompt = RenderJobPrompt(prompt, dataset)
    BY DEF IInv, CommandInv, JobInv
  <2>2. prompt \in Seq(STRING) /\ dataset \in Seq(STRING)
    BY <2>1 DEF Request
  <2> HIDE DEF prompt, dataset
  <2>3. CASE DatasetFromPrompt(prompt) # None
    <3>1. command.prompt = prompt
      BY <2>1, <2>3 DEF RenderJobPrompt, PromptMentionsDataset
    <3>2. Carries(prompt, dataset)
      BY <2>1, <2>2, <2>3, NamedIsInPrompt
    <3> QED
      BY <3>1, <3>2 DEF dataset
  <2>4. CASE DatasetFromPrompt(prompt) = None
    <3>1. ~PromptMentionsDataset(prompt)
      BY <2>4 DEF OnlyMentions, prompt
    <3>2. command.prompt =
              prompt \o <<"line", "line", "hint">> \o dataset \o <<"stop">>
      BY <2>1, <3>1 DEF RenderJobPrompt
    <3>3. prompt \in Seq(Tokens) /\ dataset \in Seq(Tokens)
      BY <2>2, SeqMonotonic DEF Tokens
    <3>4. Carries(command.prompt, dataset)
      BY <3>2, <3>3, AddedIsInPrompt
    <3> QED
      BY <3>4 DEF dataset
  <2> QED
    BY <2>3, <2>4
<1> QED
  BY <1>1, Invariance, PTL
=============================================================================
