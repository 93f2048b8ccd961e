------------------------------- MODULE Import -------------------------------
(***************************************************************************)
(* How numbers become check items: an uploaded file that is dealt out to   *)
(* the selected accounts (webapi/routers/jobs.py), a job with a list of    *)
(* numbers of its own per account, and a job of one account (main.py).     *)
(* The jobs and their items are written in one transaction: module         *)
(* Database.                                                               *)
(*                                                                         *)
(* A line, the cell of the phone column, is a sequence of texts that were  *)
(* separated by commas.  normalize_phone takes a text to its E.164 text or *)
(* rejects it; it rejects a line of several complete numbers.              *)
(***************************************************************************)
EXTENDS Naturals, Sequences, FiniteSets, SequencesExt

CONSTANTS
  Texts,
  Normalised,   (* normalize_phone: text |-> text or NotANumber            *)
  NotANumber,
  Folded,       (* str.casefold; a number is read without regard to case   *)
  Lines,        (* the lines a file may have                               *)
  MaxLines,     (* bound: lines of a file                                  *)
  MaxSelected   (* bound: accounts selected                                *)

ASSUME ImportAssumption ==
  /\ NotANumber \notin Texts
  /\ Normalised \in [Texts -> Texts \cup {NotANumber}]
  /\ \A t \in Texts : Normalised[t] # NotANumber
                        => Normalised[Normalised[t]] = Normalised[t]
  /\ \A t, u \in Texts : Folded[t] = Folded[u] => Normalised[t] = Normalised[u]
  /\ Folded \in [Texts -> Texts]
  /\ Lines \subseteq Seq(Texts) \ {<<>>}
  /\ MaxLines \in Nat /\ MaxSelected \in Nat

VARIABLES
  file,         (* the lines                                               *)
  mode,         (* none, or how they were imported                         *)
  jobs          (* one job per account: numbers, and texts that are none   *)

importVars == <<file, mode, jobs>>

ImportInit == file = <<>> /\ mode = "none" /\ jobs = <<>>

IsNumber(t) == Normalised[t] # NotANumber

-----------------------------------------------------------------------------
(* _unique_distribution_inputs.                                            *)

InputKeyOfText(line) ==                    (* mutant of InputKey: as typed  *)
  <<"phone", [i \in DOMAIN line |-> Folded[line[i]]]>>

InputKey(line) ==
  IF Len(line) = 1 /\ IsNumber(line[1]) THEN <<"phone", Normalised[line[1]]>>
  ELSE <<"invalid", [i \in DOMAIN line |-> Folded[line[i]]]>>

InputOutput(line) ==
  IF Len(line) = 1 /\ IsNumber(line[1]) THEN <<Normalised[line[1]]>> ELSE line

AddUnique(inputs, line) ==
  IF \E i \in DOMAIN inputs : InputKey(inputs[i]) = InputKey(line) THEN inputs
  ELSE Append(inputs, InputOutput(line))

UniqueInputs(lines) ==
  LET result[i \in 0 .. Len(lines)] ==
        IF i = 0 THEN <<>> ELSE AddUnique(result[i - 1], lines[i])
  IN  result[Len(lines)]

(* What the k-th of n accounts is dealt.                                   *)
BucketOfEqualSize(inputs, n, k) ==     (* mutant of Bucket: loses the rest  *)
  [m \in 1 .. Len(inputs) \div n |-> inputs[(m - 1) * n + k]]

Bucket(inputs, n, k) ==
  [m \in 1 .. (Len(inputs) + n - k) \div n |-> inputs[(m - 1) * n + k]]

-----------------------------------------------------------------------------
(* _create_job_with_numbers: the lines are split on commas, a number is    *)
(* inserted once, everything that is not a number each time.               *)

NoItems == [numbers |-> <<>>, invalid |-> <<>>]

AddText(job, t) ==
  IF ~IsNumber(t) THEN [job EXCEPT !.invalid = Append(@, t)]
  ELSE IF Contains(job.numbers, Normalised[t]) THEN job
  ELSE [job EXCEPT !.numbers = Append(@, Normalised[t])]

Job(lines) ==
  LET texts == FlattenSeq(lines)
      items[i \in 0 .. Len(texts)] ==
        IF i = 0 THEN NoItems ELSE AddText(items[i - 1], texts[i])
  IN  items[Len(texts)]

TotalItems(job) == Len(job.numbers) + Len(job.invalid)

-----------------------------------------------------------------------------
AddLine(line) ==
  /\ mode = "none" /\ Len(file) < MaxLines
  /\ file' = Append(file, line)
  /\ UNCHANGED <<mode, jobs>>

ImportSingle ==
  /\ mode = "none" /\ file # <<>>
  /\ mode' = "single" /\ jobs' = <<Job(file)>>
  /\ UNCHANGED file

(* More accounts than inputs: the last accounts get no branch.             *)
ImportDistributed(selected) ==
  LET inputs == UniqueInputs(file)
      n == IF selected < Len(inputs) THEN selected ELSE Len(inputs)
  IN  /\ mode = "none" /\ file # <<>>
      /\ selected >= 2 /\ Len(inputs) >= 2
      /\ mode' = "distributed"
      /\ jobs' = [k \in 1 .. n |-> Job(Bucket(inputs, n, k))]
      /\ UNCHANGED file

(* create_job in MULTI mode: the user wrote a list for each account.       *)
CreateMulti(cut) ==
  /\ mode = "none" /\ cut \in 1 .. Len(file) - 1
  /\ mode' = "multi"
  /\ jobs' = <<Job(SubSeq(file, 1, cut)), Job(SubSeq(file, cut + 1, Len(file)))>>
  /\ UNCHANGED file

ImportNext ==
  \/ \E line \in Lines : AddLine(line)
  \/ ImportSingle
  \/ \E selected \in 2 .. MaxSelected : ImportDistributed(selected)
  \/ \E cut \in 1 .. MaxLines : CreateMulti(cut)

ImportSpec == ImportInit /\ [][ImportNext]_importVars

-----------------------------------------------------------------------------
NumbersOf(lines) ==
  {Normalised[t] : t \in {u \in ToSet(FlattenSeq(lines)) : IsNumber(u)}}

Shared(number) == {k \in DOMAIN jobs : Contains(jobs[k].numbers, number)}

(* Whatever is dealt out, split and merged on the way, the branches        *)
(* together check exactly the numbers of the file, none of them twice in   *)
(* one job, and no text of the file that is not a number is forgotten.     *)
EveryNumberImported ==
  mode # "none" =>
    /\ UNION {ToSet(jobs[k].numbers) : k \in DOMAIN jobs} = NumbersOf(file)
    /\ \A k \in DOMAIN jobs :
         Len(jobs[k].numbers) = Cardinality(ToSet(jobs[k].numbers))
    /\ \A t \in ToSet(FlattenSeq(file)) : ~IsNumber(t) =>
         \E k \in DOMAIN jobs :
           \E u \in ToSet(jobs[k].invalid) : Folded[u] = Folded[t]

(* A file with one text to the line is dealt out fairly: no number goes to *)
(* two branches, in whatever spellings it occurs, every branch has work,   *)
(* and no branch has two items more than another.                          *)
FilesAreDealtFairly ==
  mode = "distributed" /\ (\A i \in DOMAIN file : Len(file[i]) = 1) =>
    /\ \A number \in NumbersOf(file) : Cardinality(Shared(number)) = 1
    /\ \A k, l \in DOMAIN jobs : /\ TotalItems(jobs[k]) >= 1
                                 /\ TotalItems(jobs[k]) <= TotalItems(jobs[l]) + 1

(* README.md:273-275 "targets are deduplicated globally before round-robin *)
(* distribution so the same normalized number cannot appear in two         *)
(* branches".  The code compares whole lines, and splits them on commas    *)
(* afterwards in each branch.                                              *)
BranchesDisjoint ==
  mode = "distributed" =>
    \A number \in NumbersOf(file) : Cardinality(Shared(number)) = 1
=============================================================================
