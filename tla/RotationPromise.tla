-------------------------- MODULE RotationPromise --------------------------
(***************************************************************************)
(* What key rotation promises the holders of a file's key, without any of  *)
(* the protocol: versions are only ever added, under the key of the moment; *)
(* a rotation leaves every version one key behind and may start only when  *)
(* none is; re-encryption brings them level one at a time.  Hence the      *)
(* current key and the previous one always open the whole history.         *)
(***************************************************************************)
EXTENDS Naturals

VARIABLES
    epoch,     \* names the current key
    versions,  \* the versions of the file
    lagging,   \* those still encrypted under an earlier key
    frozen     \* no write until the next rotation

pvars == <<epoch, versions, lagging, frozen>>

PInit == epoch = 1 /\ versions = {} /\ lagging = {} /\ frozen = FALSE

AddVersion ==
    /\ ~frozen
    /\ \E v \in versions' : v \notin versions /\ versions' = versions \cup {v}
    /\ UNCHANGED <<epoch, lagging, frozen>>

RotateKey ==
    /\ lagging = {}
    /\ epoch' = epoch + 1
    /\ lagging' = versions
    /\ frozen' = FALSE
    /\ UNCHANGED versions

Relevel ==
    /\ \E v \in lagging : lagging' = lagging \ {v}
    /\ UNCHANGED <<epoch, versions, frozen>>

Freeze == ~frozen /\ frozen' = TRUE /\ UNCHANGED <<epoch, versions, lagging>>

PNext == AddVersion \/ RotateKey \/ Relevel \/ Freeze

PSpec == PInit /\ [][PNext]_pvars
=============================================================================
