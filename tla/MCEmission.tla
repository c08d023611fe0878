---------------------------- MODULE MCEmission ----------------------------
(* Emission on small schedules: initial rewards that are and are not powers *)
(* of two, caps the interval divides exactly or not, few and many halvings. *)
EXTENDS Emission

MCSchedules ==
    { EmissionSchedule(cap, initial, halvings) :
        cap \in {26, 40, 63}, initial \in {1, 4, 5, 13}, halvings \in {0, 1, 3, 5} }

MCHeights == 0..20

===========================================================================
