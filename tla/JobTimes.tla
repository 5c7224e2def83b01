------------------------------ MODULE JobTimes ------------------------------
(***************************************************************************)
(* The last run times of a job and what is estimated from them             *)
(* (JobTimeData of zuul/model.py; TimeDataBase has one for every job).     *)
(* A job's data is [success, failure, results]; its file keeps the same,   *)
(* every time in two bytes.                                                *)
(***************************************************************************)
EXTENDS Integers, Sequences, FiniteSets, SequencesExt

CONSTANTS
  Kept,            (* how many times are kept: 10                           *)
  MaxTime          (* the largest time the file can hold: 65535             *)
ASSUME KeptAssumption == Kept \in Nat \ {0} /\ MaxTime \in Nat

Zeros == [k \in 1..Kept |-> 0]
NoTimes == [success |-> Zeros, failure |-> Zeros, results |-> Zeros]

Pushed(times, t) == Append(Tail(times), t)

(* mutant: the time of a failed build counts as one of a success.          *)
AddAll(td, elapsed, success) ==
  [success |-> Pushed(td.success, elapsed),
   failure |-> IF success THEN td.failure ELSE Pushed(td.failure, elapsed),
   results |-> Pushed(td.results, IF success THEN 0 ELSE 1)]

Add(td, elapsed, success) ==
  [success |-> IF success THEN Pushed(td.success, elapsed) ELSE td.success,
   failure |-> IF success THEN td.failure ELSE Pushed(td.failure, elapsed),
   results |-> Pushed(td.results, IF success THEN 0 ELSE 1)]

(* save: packing a time that does not fit raises, and the file is kept.    *)
Fits(td) == \A k \in 1..Kept : td.success[k] <= MaxTime /\ td.failure[k] <= MaxTime
Save(file, td) == IF Fits(td) THEN td ELSE file

(* getEstimatedTime, as a sum and a number of times: the mean.             *)
Estimate(td) ==
  LET times == SelectSeq(td.success, LAMBDA t : t # 0)
  IN [sum |-> FoldLeft(+, 0, times), of |-> Len(times)]

(* A script of [op |-> "add", elapsed, success] and [op |-> "restart"].    *)
TimesAfter(script) ==
  FoldLeft(LAMBDA s, e :
             IF e.op = "restart" THEN [s EXCEPT !.td = s.file]
             ELSE LET td == Add(s.td, e.elapsed, e.success)
                  IN [td |-> td, file |-> Save(s.file, td)],
           [td |-> NoTimes, file |-> NoTimes], script)

(* Reference: as long as every time fits, a restart loses nothing, and the *)
(* estimate lies between the shortest and the longest of the last Kept     *)
(* successes that took any time.  One that does not fit stays in memory,   *)
(* and nothing is saved until it has been pushed out.                      *)
LastSuccesses(script) ==
  LET all == SelectSeq(script, LAMBDA e : e.op = "add" /\ e.success)
  IN {all[k].elapsed : k \in {i \in DOMAIN all : i > Len(all) - Kept}}
TimesSurvive(script) ==
  LET s == TimesAfter(script)
      est == Estimate(s.td)
      some == LastSuccesses(script) \ {0}
  IN /\ Fits(s.file)
     /\ (\A k \in DOMAIN script : script[k].op = "add" => script[k].elapsed <= MaxTime) =>
          /\ s.file = s.td
          /\ est.of = 0 <=> some = {}
          /\ some # {} => /\ \E t \in some : t * est.of <= est.sum
                          /\ \E t \in some : t * est.of >= est.sum
=============================================================================
