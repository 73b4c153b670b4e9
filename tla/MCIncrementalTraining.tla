----------------------- MODULE MCIncrementalTraining -----------------------
EXTENDS IncrementalTraining, TLC

Versions == [j \in Jobs |-> j]
Interchangeable == Permutations(Examples) \cup Permutations(Promotions)
                       \cup Permutations(Records)

(* Runs and data share one fact, that a promotion is ready, and it stays   *)
(* so: steps on the two commute.  All steps on data are explored while     *)
(* there is no run, and all of runs beside one promotion.                  *)
NoRuns  == /\ \A q \in Requests : request[q].status = "absent"
           /\ \A j \in Jobs : job[j] = "absent"
OneData == /\ \E p \in Promotions :
                 /\ promotion[p].status \in {"approved", "ready"}
                 /\ promotion[p].selected = Examples
                 /\ promotion[p].replay = {} /\ promotion[p].items = Rows
                 /\ \A q \in Promotions \ {p} : promotion[q].status = "absent"
           /\ \A d \in Rows : \E e \in Examples :
                 record[d] = [status |-> "approved", text |-> TextOf(e)]
           /\ \A e \in Examples : example[e].text = 0
           /\ orderly
DataFirst == (data' # data => NoRuns) /\ (runs' # runs => OneData)

(* A replay plan names records of the other version or of a corpus. *)
Corpus       == {r \in Records : record[r].text \in Segments}
Replayable   == UNION {promotion[p].items : p \in Promotions} \cup Corpus
ReplaysItems == \A p \in Promotions :
                   promotion'[p].replay \subseteq promotion[p].replay \cup Replayable

(* Beside a corpus record there is one promotion and no text is revised:   *)
(* with two records, no other promotion could be built.  Edited, it would  *)
(* be one of the others.                                                   *)
Alone == /\ \A r, s \in Corpus : r = s
         /\ \A p, q \in Promotions :
               p # q => "absent" \in {promotion[p].status, promotion[q].status}
         /\ \A e \in Examples : example[e].text = 0
         /\ \A r \in Rows \ Corpus : record[r].text \in Examples \X {0}
CorpusAlone == Corpus \subseteq Corpus' /\ (Corpus' # {} => Alone')

Explored == DataFirst /\ ReplaysItems /\ CorpusAlone
=============================================================================
