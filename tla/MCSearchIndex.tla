---------------------------- MODULE MCSearchIndex ----------------------------
(***************************************************************************)
(* SearchIndex with history variables for the ways an index is known to    *)
(* fall behind the catalogue.                                              *)
(***************************************************************************)
EXTENDS SearchIndex

VARIABLES
  behind,  \* processes and entities whose document may be out of date
  crossed  \* runs that another run in their process, or a change of a row, got into

MCVars == <<vars, behind, crossed>>

MCInit == Init /\ behind = {} /\ crossed = {}

Busy(w) == op[w].in # None

\* The entities a run writes, in its process.
Targets(w) ==
  IF ~Busy(w) THEN {}
  ELSE IF At(w, "collect") THEN Entities ELSE {op[w].job.target}

Ends(w) == Busy(w) /\ op'[w] = Idle

Puts(w) == Ends(w) /\ faults' = faults

Whole(w) == At(w, "collect") /\ (op[w].job # None => op[w].job.target = EntityKinds)

\* The announcement of a change came to nothing: the queue knew the id from a job that
\* has loaded its row already, or the call failed.
Unheard(e) ==
  \E w \in Workers :
    /\ At(w, "announce") /\ op'[w] = Idle /\ op[w].job.target = e
    /\ \/ faults' < faults
       \/ jobs[op[w].job].status \in {"completed", "failed"}
       \/ \E v \in Workers : Busy(v) /\ At(v, "put") /\ op[v].job = op[w].job

GivenUp(e) == \E j \in Jobs : j.target = e /\ jobs[j].status = "active" /\ jobs'[j].status = "failed"

\* The job ran in another process, or beside another run on the same entity in this one.
RanElsewhere(p, e) == \E w \in Workers : Puts(w) /\ op[w].in # p /\ op[w].job # None /\ e \in Targets(w)

RanBeside(p, e) ==
  \E v, w \in Workers :
    v # w /\ op[v].in = p /\ op[w].in = p /\ e \in Targets(v) /\ e \in Targets(w)

\* A reindex of some kinds forgot the others; a job warmed a cold process with one document.
LeftOut(p, e) ==
  \E w \in Workers :
    /\ Puts(w) /\ op[w].in = p
    /\ \/ At(w, "collect") /\ ~Whole(w) /\ KindOf[e] \notin op[w].job.target
       \/ ~At(w, "collect") /\ p \notin warm /\ e \notin Targets(w)

\* A whole reindex that nothing got into.
Repaired(p) == \E w \in Workers \ crossed : Puts(w) /\ op[w].in = p /\ Whole(w)

MCNext ==
  /\ Next
  /\ behind' =
       (behind \ {pe \in Processes \X Entities : Repaired(pe[1])})
         \cup {pe \in Processes \X Entities :
                 \/ Unheard(pe[2]) \/ GivenUp(pe[2])
                 \/ RanElsewhere(pe[1], pe[2]) \/ RanBeside(pe[1], pe[2])
                 \/ LeftOut(pe[1], pe[2])}
  /\ crossed' = {w \in Workers :
       /\ op'[w].in # None
       /\ \/ w \in crossed \/ catalog' # catalog
          \/ \E v \in Workers \ {w} : op'[v].in = op'[w].in}

MCSpec == MCInit /\ [][MCNext]_MCVars

\* At rest, the index of a warm process has of every entity the document its row gives
\* now, and none of an entity that is inactive or deleted, in whatever order changes,
\* announcements, retries, reindexes and restarts came; unless one of the cases above put
\* that process behind on that entity, and then a whole reindex puts it right.
IndexFollowsUnlessBehind ==
  AtRest =>
    \A p \in warm, e \in Entities :
      <<p, e>> \notin behind => engine[p][e] = Document(catalog[e])
=============================================================================
