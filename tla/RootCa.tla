------------------------------- MODULE RootCa -------------------------------
(***************************************************************************)
(* The root CA and its two files: ensure_root_ca, load_root_ca and         *)
(* generate_root_ca in crates/core/src/security.rs.                        *)
(*                                                                         *)
(* A bundle, once there, is kept for the life of the process.  Otherwise   *)
(* it is read from the certificate's and the key's file when both exist,   *)
(* and generated when not.  Each file is written by fs::write, which first *)
(* empties it and then fills it: a failure or the end of the process in    *)
(* between leaves a file that exists and holds no PEM.  What is read is    *)
(* not parsed before a certificate has to be signed with it.               *)
(***************************************************************************)
EXTENDS Naturals

CONSTANTS
    Absent,  \* no such file, or no bundle
    Cut,     \* a file that is empty or breaks off
    MaxCas   \* bound: CAs generated

Contents == 1..MaxCas \cup {Absent, Cut}
Bundles == [cert : Contents \ {Absent}, key : Contents \ {Absent}]

ASSUME CaAssumption ==
    /\ MaxCas \in Nat
    /\ Absent # Cut /\ Cut \notin Nat /\ Absent \notin Nat \cup Bundles

VARIABLES
    cert, key,  \* the files: which CA's, Cut or Absent
    bundle,     \* HttpsMitmState.bundle
    step,       \* how far ensure_root_ca is
    made,       \* CAs generated so far
    torn,       \* history: a write broke off, or files that are there could not be read
    told        \* history: the CAs whose certificate the user was told to install

caVars == <<cert, key, bundle, step, made, torn, told>>

CaInit ==
    /\ cert = Absent /\ key = Absent /\ bundle = Absent
    /\ step = "idle"
    /\ made = 0
    /\ torn = FALSE
    /\ told = {}

Ready == bundle # Absent

At(from, to) == step = from /\ step' = to

\* The command's answer names the certificate's file: the user installs it.
Adopt(c, k) ==
    /\ bundle' = [cert |-> c, key |-> k]
    /\ told' = told \cup {c}
-----------------------------------------------------------------------------
\* Mutant: the certificate's file alone decides.
FilesExistCert == cert # Absent

\* load_root_ca wants both files.
FilesExist == cert # Absent /\ key # Absent

\* load_root_ca returns what they hold.
Load ==
    /\ FilesExist
    /\ At("loading", "idle")
    /\ Adopt(cert, key)
    /\ UNCHANGED <<cert, key, made, torn>>

\* It returns None: a file is missing, or cannot be read.
LoadNone ==
    /\ At("loading", "generating")
    /\ torn' = (torn \/ FilesExist)
    /\ UNCHANGED <<cert, key, bundle, made, told>>

\* The directory or the first file cannot be made, or there is no key pair.
GenerateFails ==
    /\ At("generating", "idle")
    /\ UNCHANGED <<cert, key, bundle, made, torn, told>>

\* fs::write of the certificate begins.
CreateCert ==
    /\ made < MaxCas
    /\ At("generating", "certificate")
    /\ made' = made + 1
    /\ cert' = Cut
    /\ UNCHANGED <<key, bundle, torn, told>>

\* Mutant: the bundle is adopted before its key is on disk.
FillCertAdopting ==
    /\ At("certificate", "certified")
    /\ cert' = made
    /\ Adopt(made, made)
    /\ UNCHANGED <<key, made, torn>>

FillCert ==
    /\ At("certificate", "certified")
    /\ cert' = made
    /\ UNCHANGED <<key, bundle, made, torn, told>>

\* fs::write of the key begins, or cannot.
CreateKey ==
    /\ \/ At("certified", "key") /\ key' = Cut
       \/ At("certified", "idle") /\ UNCHANGED key
    /\ UNCHANGED <<cert, bundle, made, torn, told>>

FillKey ==
    /\ At("key", "idle")
    /\ key' = made
    /\ Adopt(made, made)
    /\ UNCHANGED <<cert, made, torn>>

\* The disk is full: ensure_root_ca has no bundle and reports an error.
FillFails ==
    /\ step \in {"certificate", "key"} /\ step' = "idle"
    /\ torn' = TRUE
    /\ UNCHANGED <<cert, key, bundle, made, told>>

EnsureStep ==
    \/ Load \/ LoadNone \/ GenerateFails \/ CreateCert
    \/ FillCert \/ CreateKey \/ FillKey \/ FillFails

\* ensure_root_ca is called: a bundle that is there is the answer.
Ensure == step = "idle" /\ step' = IF Ready THEN "idle" ELSE "loading"

\* The process ends, and the application is started again.
LoseProcess ==
    /\ step' = "idle"
    /\ bundle' = Absent
    /\ torn' = (torn \/ step \in {"certificate", "key"})
    /\ UNCHANGED <<cert, key, made, told>>
-----------------------------------------------------------------------------
CaTypeOK ==
    /\ cert \in Contents /\ key \in Contents
    /\ bundle \in Bundles \cup {Absent}
    /\ step \in {"idle", "loading", "generating", "certificate", "certified", "key"}
    /\ made \in 0..MaxCas
    /\ torn \in BOOLEAN
    /\ told \subseteq Contents

\* A certificate can be signed, and is one of the CA it names.
Usable == bundle.cert \in Nat /\ bundle.cert = bundle.key

\* A CA that is ready can sign, and its two halves belong together, whenever
\* the process ended, between the two files included: only a write that broke
\* off or files that could not be read make it otherwise.
ReadyIsUsable == Ready /\ ~torn => Usable

\* "Install that CA only on machines you own": the user installs once.  No
\* start of the application brings up another CA than the one it told of
\* before, short of a torn write or unreadable files.
CaIsKept == ~torn => \A c, d \in told : c = d
=============================================================================
