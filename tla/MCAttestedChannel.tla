------------------------- MODULE MCAttestedChannel --------------------------
(* A rollout from one image to the next, beside a workload that runs the   *)
(* new image in debug mode.                                                *)
EXTENDS AttestedChannel

MCWorkloads == {"old", "new", "debugged"}

MCImage ==
    [w \in MCWorkloads |-> IF w = "old" THEN "sha256:1" ELSE "sha256:2"]

Release(digest, accepted) ==
    [audience |-> Empty, image_digest |-> digest, accepted_image_digests |-> accepted,
     image_reference |-> Empty, accepted_image_references |-> {}]

(* The new image is accepted beside the old one before it replaces it; a   *)
(* blank entry of the list matches nothing.                                *)
MCReleases ==
    << Release("sha256:1", {}),
       Release("sha256:2", {"sha256:1", "sha256:2", Empty}),
       Release("sha256:2", {}) >>
=============================================================================
