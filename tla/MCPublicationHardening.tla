----------------------- MODULE MCPublicationHardening -----------------------
(* Two settings, the repository's own and one of those that are read last, and one  *)
(* person who may have been invited.                                                *)
EXTENDS PublicationHardening

MCRequests == <<"repository", "branch_protection">>
=============================================================================
