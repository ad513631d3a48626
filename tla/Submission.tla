----------------------------- MODULE Submission -----------------------------
(***************************************************************************)
(* What a submission carries from the form to the backend: the dataset     *)
(* create_job resolves (portal/services.py), the clone form filled from a  *)
(* stored job (portal/views.py), and the prompt, configuration and Docker  *)
(* image of the backend command (portal/backend.py).                       *)
(*                                                                         *)
(* A prompt is a sequence of tokens.  "rucio" is the phrase "rucio dataset" *)
(* before its name, "hint" any other phrase prompt_mentions_dataset looks  *)
(* for (a DAOD word, "dataset: ...", the fallback sentence), "stop" the    *)
(* trailing dots and blanks _dataset_from_prompt strips; "line" is a line  *)
(* break, and every other token is text.  A dataset is a token sequence    *)
(* too, with "blank" for the blanks around one that a form or a setting     *)
(* gives, and <<>> is none.                                                *)
(***************************************************************************)
EXTENDS Naturals, Sequences, FiniteSetsExt, SequencesExt

CONSTANTS
    Prompts,   \* prompts users type, stripped, as submit_job strips them
    FormDatasets,
    Configs    \* environments the portal is started with

Profiles == {"servicex_awkward", "rdf"}
None == <<>>

\* What _normalize_question keeps of an entry of an example file; a plain string
\* declares no dataset.
Question == [prompt : Seq(STRING), dataset : Seq(STRING)]

\* "none": missing or not YAML; "blank": YAML of nothing; "text": anything else,
\* which may still have no questions.
File == [content : {"none", "blank", "text"}, questions : Seq(Question)]

\* A file name load_example_questions tries in a package, and the files of that
\* package under the fallback paths.
Candidate == [direct : File, fallbacks : Seq(File)]

ASSUME ConfigsAssumption ==
    Configs \subseteq
        [default_dataset : Seq(STRING),
         candidates : Seq(Candidate),  \* in the order they are tried
         model : STRING, repair_cycles : Int,
         image : [Profiles -> STRING],
         global_fallback_image : STRING, docker_image : STRING]

ASSUME FormsAssumption == Prompts \cup FormDatasets \subseteq Seq(STRING)

VARIABLES
    config,    \* the environment, read at every use
    form,      \* the form before the user: home page or clone page
    source,    \* the job an unedited clone form shows
    job,       \* the job stored last
    command    \* the backend command of that job

vars == <<config, form, source, job, command>>

NoJob == [original_prompt |-> None, resolved_dataset |-> None, backend_profile |-> ""]
NoCommand == [prompt |-> None, profile |-> "", image |-> ""]

-----------------------------------------------------------------------------
(* portal/backend.py                                                       *)

SkipLines(s) ==
    LET text == {i \in DOMAIN s : s[i] # "line"}
    IN IF text = {} THEN None ELSE SubSeq(s, Min(text), Len(s))

RStrip(s) == SubSeq(s, 1, Max({0} \cup {i \in DOMAIN s : s[i] # "stop"}))

\* r"rucio dataset\s+(.+)$": the blanks may break the line, the name may not, and
\* it ends the prompt.
DatasetFromPrompt(prompt) ==
    LET After(i)  == SkipLines(SubSeq(prompt, i + 1, Len(prompt)))
        matches   == {i \in DOMAIN prompt :
                        /\ prompt[i] = "rucio"
                        /\ After(i) # None /\ "line" \notin Range(After(i))}
    IN IF matches = {} THEN None ELSE RStrip(After(Min(matches)))

PromptMentionsDataset(prompt) ==
    DatasetFromPrompt(prompt) # None \/ Range(prompt) \cap {"rucio", "hint"} # {}

RenderJobPrompt(prompt, dataset) ==
    IF dataset = None \/ PromptMentionsDataset(prompt) THEN prompt
    ELSE prompt \o <<"line", "line", "hint">> \o dataset \o <<"stop">>

QuestionsOf(file) == IF file.content = "text" THEN file.questions ELSE <<>>

\* The first fallback file that can be read ends the search for this candidate, also
\* if it is blank.
FallbackQuestions(fallbacks) ==
    LET readable == {i \in DOMAIN fallbacks : fallbacks[i].content # "none"}
    IN IF readable = {} THEN <<>> ELSE QuestionsOf(fallbacks[Min(readable)])

\* A direct file with any content keeps the fallbacks from being tried.
CandidateQuestions(candidate) ==
    IF candidate.direct.content = "text" THEN QuestionsOf(candidate.direct)
    ELSE FallbackQuestions(candidate.fallbacks)

\* The questions of the first candidate that has any.
LoadExampleQuestions ==
    LET used == {i \in DOMAIN config.candidates :
                    CandidateQuestions(config.candidates[i]) # <<>>}
    IN IF used = {} THEN <<>> ELSE CandidateQuestions(config.candidates[Min(used)])

\* _normalize_question: the declared dataset, else the one its prompt names.
QuestionDataset(question) == IF question.dataset # None THEN question.dataset
                             ELSE DatasetFromPrompt(question.prompt)

\* The configured default, else the dataset of the first example that has one.
DefaultDataset ==
    LET questions == LoadExampleQuestions
        named == {i \in DOMAIN questions : QuestionDataset(questions[i]) # None}
    IN IF config.default_dataset # None THEN config.default_dataset
       ELSE IF named = {} THEN None
       ELSE QuestionDataset(questions[Min(named)])

\* backend_model_cli_value and backend_repair_cycles raise otherwise, and the job
\* fails without a command.
ModelConfigured == config.model \notin {"", " "} /\ config.repair_cycles > 0

DockerImage_OneForAll(profile) == IF config.image["servicex_awkward"] # ""
    THEN config.image["servicex_awkward"] ELSE config.global_fallback_image
\* docker_image_for_profile: the first setting that is not empty, stripped.
DockerImage(profile) ==
    LET image == IF config.image[profile] # "" THEN config.image[profile]
                 ELSE IF config.global_fallback_image # ""
                 THEN config.global_fallback_image
                 ELSE config.docker_image
    IN IF image = " " THEN "" ELSE image

-----------------------------------------------------------------------------
(* portal/services.py and portal/views.py                                  *)

ResolvedDataset_FormFirst(prompt, dataset) ==
    IF dataset # None THEN dataset
    ELSE IF DatasetFromPrompt(prompt) # None THEN DatasetFromPrompt(prompt)
    ELSE DefaultDataset
ResolvedDataset_DefaultFirst(prompt, dataset) ==
    IF DatasetFromPrompt(prompt) # None THEN DatasetFromPrompt(prompt)
    ELSE IF DefaultDataset # None THEN DefaultDataset
    ELSE dataset
ResolvedDataset(prompt, dataset) ==
    IF DatasetFromPrompt(prompt) # None THEN DatasetFromPrompt(prompt)
    ELSE IF dataset # None THEN dataset
    ELSE DefaultDataset

Strip(s) ==
    LET text == {i \in DOMAIN s : s[i] # "blank"}
    IN IF text = {} THEN None ELSE SubSeq(s, Min(text), Max(text))

FormDataset == ResolvedDataset(form.prompt, Strip(form.dataset))

SubmitForm_Unchecked ==
    /\ form.prompt # None
    /\ job' = [original_prompt |-> form.prompt,
               resolved_dataset |-> FormDataset,
               backend_profile |-> form.profile]
    /\ command' = NoCommand
    /\ UNCHANGED <<config, form, source>>
\* submit_job or clone_job: a job, or an error that leaves things as they are (no
\* prompt, an unknown profile, no dataset).
SubmitForm ==
    /\ form.prompt # None
    /\ form.profile \in Profiles
    /\ FormDataset # None
    /\ job' = [original_prompt |-> form.prompt,
               resolved_dataset |-> FormDataset,
               backend_profile |-> form.profile]
    /\ command' = NoCommand
    /\ UNCHANGED <<config, form, source>>

\* The user writes a new request, takes the prompt of an example, or edits the
\* one in the form.
EditForm(prompt, dataset, profile) ==
    /\ form' = [prompt |-> prompt, dataset |-> dataset, profile |-> profile]
    /\ source' = NoJob
    /\ UNCHANGED <<config, job, command>>

\* GET of clone_job: the form as the stored job fills it.
OpenClone ==
    /\ job # NoJob
    /\ form' = [prompt |-> job.original_prompt, dataset |-> job.resolved_dataset,
                profile |-> job.backend_profile]
    /\ source' = job
    /\ UNCHANGED <<config, job, command>>

\* _backend_command_for_job, in the worker.
BackendCommand ==
    /\ job # NoJob
    /\ ModelConfigured
    /\ command' = [prompt  |-> RenderJobPrompt(job.original_prompt, job.resolved_dataset),
                   profile |-> job.backend_profile,
                   image   |-> DockerImage(job.backend_profile)]
    /\ UNCHANGED <<config, form, source, job>>

\* The portal is started again with another environment.
Restart(c) ==
    /\ config' = c
    /\ command' = NoCommand
    /\ UNCHANGED <<form, source, job>>

Init ==
    /\ config \in Configs
    /\ form = [prompt |-> None, dataset |-> None, profile |-> "servicex_awkward"]
    /\ source = NoJob
    /\ job = NoJob
    /\ command = NoCommand

Next ==
    \/ SubmitForm
    \/ \E p \in Prompts \cup {None}, d \in FormDatasets \cup {None},
          f \in Profiles \cup {"unknown"} : EditForm(p, d, f)
    \/ OpenClone
    \/ BackendCommand
    \/ \E c \in Configs : Restart(c)

Spec == Init /\ [][Next]_vars

-----------------------------------------------------------------------------
(* Properties                                                              *)

\* Whatever the form holds, a stored job has a prompt, a dataset and one of the
\* profiles (create_job), and a command is a job's.
TypeOK ==
    /\ config \in Configs
    /\ form \in [prompt : Seq(STRING), dataset : Seq(STRING),
                 profile : Profiles \cup {"unknown"}]
    /\ \A j \in {job, source} \ {NoJob} :
          /\ j.original_prompt # None /\ j.resolved_dataset # None
          /\ j.backend_profile \in Profiles
    /\ command # NoCommand => job # NoJob /\ command.profile = job.backend_profile

\* Resubmitting an unedited clone stores the same request again, also when the
\* default dataset has changed in between (clone_job).  A default is recorded as it
\* is configured, while the form strips its value: a clone may lose the blanks around
\* one, and one of blanks alone is no dataset to repeat.
CloneRepeats == [][
    source # NoJob /\ job' # job =>
        /\ job'.original_prompt = source.original_prompt
        /\ job'.backend_profile = source.backend_profile
        /\ \/ job'.resolved_dataset \in {source.resolved_dataset,
                                       Strip(source.resolved_dataset)}
           \/ Strip(source.resolved_dataset) = None]_vars

\* A dataset the prompt names is the one recorded, and the backend gets that
\* prompt as it was typed, whatever the form and the configuration say.
PromptWins ==
    LET named == DatasetFromPrompt(job.original_prompt)
    IN named # None =>
        /\ job.resolved_dataset = named
        /\ command # NoCommand => command.prompt = job.original_prompt

\* A command never carries the image of the other profile, and carries its own
\* wherever one is configured (docker_image_for_profile).
OwnImage == command # NoCommand =>
    LET own == config.image[command.profile]
    IN /\ own \notin {"", " "} => command.image = own
       /\ command.image \in
             {own, config.global_fallback_image, config.docker_image, ""}

\* docs/2026-05-20-github-issues-spec.md: "If the user provides a separate dataset
\* form value, the app should include that dataset instruction with the request":
\* the backend is told of the dataset recorded for the job.
BackendIsTold == command # NoCommand =>
    \E i \in 1..Len(command.prompt) :
        IsPrefix(job.resolved_dataset,
                 SubSeq(command.prompt, i, Len(command.prompt)))
=============================================================================
