---------------------------- MODULE MCDefaultPmm ----------------------------
(***************************************************************************)
(* The first-fit manager in three settings, one in each behaviour:         *)
(* "sorted", two regions from the top down, as DefaultPmm has it;          *)
(* "unsorted", regions in the order of an e820 map, with the links;        *)
(* "self-test", default_check on such a memory and a few calls after it.   *)
(***************************************************************************)
EXTENDS FreeMethods

Descending == <<[base |-> 3, n |-> 3], [base |-> 0, n |-> 2]>>

VARIABLES part,
    list, nr, size, flag, zones, taken, result, ring, pc, ptr, saved, counted

U == INSTANCE DefaultCheck WITH
        Zones <- <<[base |-> 0, n |-> 3], [base |-> 4, n |-> 1]>>,
        Tested <- FALSE, MaxUses <- 0,
        free_list <- list, nr_free <- nr, property <- size, flags <- flag,
        zone <- zones, held <- taken, ret <- result

T == INSTANCE DefaultCheck WITH
        Zones <- <<[base |-> 0, n |-> 1], [base |-> 2, n |-> 5]>>,
        Tested <- TRUE, MaxUses <- 2,
        free_list <- list, nr_free <- nr, property <- size, flags <- flag,
        zone <- zones, held <- taken, ret <- result

others == <<list, nr, size, flag, zones, taken, result, ring, pc, ptr, saved, counted>>
allvars == <<part, vars, others>>

MCInit ==
    /\ part \in {"sorted", "unsorted", "self-test"}
    /\ Init
    /\ part = "self-test" => T!ListInit
    /\ part # "self-test" => U!ListInit

(* The bound on the calls after the self-test is reached. *)
Bound == pc = Len(T!Script) + 3

MCNext ==
    \/ part = "sorted" /\ Next /\ UNCHANGED <<part, others>>
    \/ part = "unsorted" /\ U!CheckNext /\ UNCHANGED <<part, vars>>
    \/ part = "self-test" /\ T!CheckNext /\ UNCHANGED <<part, vars>>
    \/ part = "self-test" /\ Bound /\ UNCHANGED allvars

MCSpec == MCInit /\ [][MCNext]_allvars

(* Those of DefaultCheck. *)
SelfTestPasses == part = "self-test" => T!SelfTestPasses
RingIsList == IF part = "self-test" THEN T!RingIsList ELSE U!RingIsList
AnyOrder == IF part = "self-test" THEN T!AnyOrder ELSE U!AnyOrder
=============================================================================
