---------------------------- MODULE MCOperations -----------------------------
(* The operations side of the service on small instances, for TLC.           *)
EXTENDS Operations, TLC

CONSTANTS v1, v2, v3, d1, x1, c1, g1, p1, p2, a1, t1, s1, k1, k2,
          o1, r1, r2, i1, i2, i3, short, long, w1, w2

Envelope_(id, v, form) == [source |-> s1, id |-> id, vehicle |-> v, form |-> form]

(* Two good events of one vehicle, one of a vehicle that may be unknown, and *)
(* broken ones that share a key with the good.                               *)
Sent == {Envelope_(k1, v1, "good"), Envelope_(k2, v1, "good"),
         Envelope_(k1, v2, "time"), Envelope_(k2, v1, "shape")}

(* A file with an empty line, one that is too long, one with nothing in it.  *)
Imports == {<<Blank, Envelope_(k2, v2, "good")>>,
            <<Envelope_(k1, v1, "good"), Envelope_(k2, v1, "good"),
              Envelope_(k1, v1, "good")>>,
            <<Blank>>}

(* A plan that keeps points two days, of which an organization may take one. *)
Plans == [o \in Org |-> 2]

(* Windows of two lengths, as the keys of the service have.                  *)
Windows == (short :> 2) @@ (long :> 4)
Limits_ == (short :> 2) @@ (long :> 2)

(* i2 lies between i1 and i3, which are not near one another.                *)
Chain == {<<i, j>> \in Incident \X Incident : i = j \/ i = i2 \/ j = i2}

Nothing == [area \in Area |-> 0]

Started == <<r1, r2>>

(* Each mix drives one part of the service, or one beside what it meets:     *)
(* a long run of the registry, runs of ingestion, and the plan beside both;  *)
(* the limiter; the streams; the rebuilds; the scheduler; the container.     *)
Mixes == {("registry" :> 4) @@ ("plan" :> 2) @@ Nothing,
          ("registry" :> 1) @@ ("client" :> 3) @@ ("batch" :> 2) @@ Nothing,
          ("client" :> 4) @@ ("batch" :> 2) @@ Nothing,
          ("hit" :> 4) @@ ("time" :> 4) @@ Nothing,
          ("hit" :> 3) @@ ("time" :> 4) @@ ("outage" :> 1) @@ Nothing,
          ("live" :> 4) @@ ("hub" :> 2) @@ ("stream" :> 2) @@ Nothing,
          ("incident" :> 4) @@ ("rebuild" :> 3) @@ Nothing,
          ("tick" :> 2) @@ ("day" :> 2) @@ ("point" :> 2) @@ Nothing,
          ("container" :> 1) @@ Nothing}

Symmetry == Permutations(Process)
==============================================================================
