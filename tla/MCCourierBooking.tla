---- MODULE MCCourierBooking ----
(* Symmetry for TLC: requests, callbacks and parcels are interchangeable. *)
EXTENDS CourierBooking, TLC

Everything == Permutations(Actors) \cup Permutations(Callbacks) \cup Permutations(Parcels)
====
