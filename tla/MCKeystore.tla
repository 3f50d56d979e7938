---------------------------- MODULE MCKeystore ----------------------------
(* Instances of the keystore, and what module Rotation promises of it. *)
EXTENDS Keystore, TLC

\* What a behaviour goes through besides the rules, keys and passwords: recovery
\* codes on one machine, a move to a machine without the device keys, or aborted
\* rotations.
VARIABLE story

storyVars == <<vars, story>>

StoryInit == Init /\ story \in {"codes", "move", "abort"}

Aborts == \E s \in MayAbort : AbortRotation(s)

StoryNext ==
    /\ Next
    /\ \/ story = "codes" /\ ~ moved' /\ ~ Aborts /\ Cardinality(devices') <= 1
       \/ story = "move" /\ ~ SetupRecovery /\ ~ Aborts
       \/ story = "abort" /\ ~ moved' /\ ~ SetupRecovery
    /\ UNCHANGED story

StorySpec == StoryInit /\ [][StoryNext]_storyVars

--------------------------------------------------
(* Properties. *)

\* Where no rotation is aborted, FlagMatchesRoute and SecretsKept.
FlagsAgree == story # "abort" => FlagMatchesRoute
SecretsStay == story # "abort" => SecretsKept

\* Which scopes are to have their own password.
Sealing(kr) == [s \in Scopes |-> Exists(kr, s) /\ kr.own[Governing(kr, s)]]

Promise ==
    INSTANCE Rotation WITH
        cur    <- keyring.cur,
        staged <- keyring.staged,
        sealed <- Sealing(keyring),
        open   <- keys

\* Whatever interleaves, the store sees a keystore that stages, commits, opens and
\* forgets whole key versions, one call at a time, and locks exactly what is protected.
ImplementsRotation ==
    /\ Promise!KeystoreInit
    /\ [][story # "abort" => Promise!KeystoreNext]_(Promise!keystore)
=============================================================================
