---------------------------- MODULE MCCrawlQueue ----------------------------
(* A small instance of CrawlQueue for TLC. *)
EXTENDS CrawlQueue

CONSTANTS fpt, shs, bs, is

(* FPT is listed on HOSE, SHS on HNX *)
MCStart == [s \in Symbol |-> IF s = fpt THEN "HOSE" ELSE "HNX"]

(* Nothing is fetched yet, or only the balance sheets are not *)
NothingFetched == [s \in Symbol |-> [d \in Doc |-> "PENDING"]]
OthersFetched ==
  [s \in Symbol |-> [d \in Doc |-> IF d = bs THEN "PENDING" ELSE "SUCCESS"]]

MCStartDocuments == {NothingFetched, OthersFetched}

(* Bound: careful operators start with nothing, and there is one             *)
(* administrator and a crash or a change of the universe.  The others have   *)
(* one document of one symbol that may be missing, no crash and no change of the        *)
(* universe, and two crawls at a time; while there is one job, one of the    *)
(* two may be somebody's own or of another mode, while nobody enqueues or    *)
(* clears.                                                                   *)
MCInit ==
  /\ Init
  /\ documents = IF careful THEN NothingFetched ELSE OthersFetched

Bounded ==
  IF careful
  THEN /\ \A a \in Admin : wanted'[a] = {} \/ a = CHOOSE b \in Admin : TRUE
       /\ crashes' + syncs' <= 1
  ELSE /\ crashes' + syncs' = 0
       /\ Cardinality({c \in Crawler : crawler'[c] # Idle}) <= 2
       /\ LET special == {c \in Crawler : \/ crawler'[c].mode # "new"
                                          \/ c \in Direct /\ crawler'[c] # Idle}
          IN  special = {} \/ (Cardinality(special) = 1 /\ Len(queue') = 1
                            /\ clearing' = "no" /\ \A a \in Admin : wanted'[a] = {})
       /\ documents'[fpt][is] = "SUCCESS"
       /\ \A a \in Admin : shs \notin wanted'[a]
       /\ \A c \in Crawler : crawler'[c].symbol # shs

MCSpec == MCInit /\ [][Next /\ Bounded]_vars /\ Fairness
=============================================================================
