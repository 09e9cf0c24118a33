---------------------------- MODULE ProfileStores -----------------------------
(***************************************************************************)
(* The profiles and their passphrases: two files of the main process       *)
(* (store/profiles.ts, store/secrets.ts), the dialog that edits them and   *)
(* the list of the window (serverStore.ts).                                *)
(*                                                                         *)
(* A request changes the profiles in memory, writes their file, and only   *)
(* then turns to the secrets, read lazily from a second file.  Nothing     *)
(* queues the writes, and a file is written in place.  clearPassphrase is  *)
(* never sent by the window and is left out.                               *)
(***************************************************************************)
EXTENDS Naturals, Sequences

CONSTANTS
    Profile,       \* server ids, none used twice
    Call           \* requests that can be under way

VARIABLES
    psUp,          \* the application runs
    psProfiles,    \* ProfileStore.profiles: how each profile authenticates
    psSecrets,     \* SecretsStore.cache: the profiles with a passphrase
    psLoaded,      \* SecretsStore.loaded
    psDisk,        \* what the two files hold
    psShown,       \* the profiles of the window
    psCall,        \* requests under way
    psCollided     \* a write failed, two of them met, or a request was cut off (history)

psVars == <<psUp, psProfiles, psSecrets, psLoaded, psDisk, psShown, psCall, psCollided>>

\* A key file is "locked" when the profile says hasPassphrase.
Auth == {"agent", "key", "locked"}
Listed(list) == {p \in Profile : list[p] \in Auth}
PsFile == {"profiles", "secrets"}
\* What a file holds: <<everything>>, or nothing that parses.
Whole(content) == <<content>>
Torn == <<>>
NoCall == [op |-> "none"]

InMemory(file) == Whole(IF file = "profiles" THEN psProfiles ELSE psSecrets)

Busy(c) == psCall[c] # NoCall
At(c, phase) == Busy(c) /\ psCall[c].phase = phase
Goes(c, phase) == psCall' = [psCall EXCEPT ![c] = [psCall[c] EXCEPT !.phase = phase]]
Ends(c) == psCall' = [psCall EXCEPT ![c] = NoCall]

\* Some other request is writing the file.
OthersWrite(c, file) == \E d \in Call \ {c} : At(d, "writing") /\ psCall[d].file = file

(***************************************************************************)
(* create, update, remove: the change in memory.  A request on a profile   *)
(* that another request still works on is counted as a collision.          *)
(***************************************************************************)
Asks(c, op, p, typed) ==
    /\ psUp /\ ~Busy(c)
    /\ psCall' = [psCall EXCEPT ![c] =
           [op |-> op, id |-> p, typed |-> typed, phase |-> "mkdir", file |-> "profiles",
            payload |-> Whole(psProfiles)]]
    /\ psCollided' = (psCollided \/ \E d \in Call : Busy(d) /\ psCall[d].id = p)
    /\ UNCHANGED <<psUp, psSecrets, psLoaded, psDisk, psShown>>

\* buildAuth: a key keeps the passphrase it had unless another one is typed.
Chosen(kind, typed, before) ==
    IF kind = "agent" THEN "agent"
    ELSE IF typed \/ before = "locked" THEN "locked" ELSE "key"

PsCreates(c, p, kind, typed) ==
    /\ psProfiles[p] = "none"
    /\ psProfiles' = [psProfiles EXCEPT ![p] = Chosen(kind, typed, "none")]
    /\ Asks(c, "create", p, typed)

\* An unknown id is refused with NOT_FOUND, which changes nothing.
PsUpdates(c, p, kind, typed) ==
    /\ p \in Listed(psShown) \cap Listed(psProfiles)
    /\ psProfiles' = [psProfiles EXCEPT ![p] = Chosen(kind, typed, psShown[p])]
    /\ Asks(c, "update", p, typed)

PsRemoves(c, p) ==
    /\ p \in Listed(psShown) \cap Listed(psProfiles)
    /\ psProfiles' = [psProfiles EXCEPT ![p] = "removed"]
    /\ Asks(c, "remove", p, FALSE)

\* buildConnectConfig: a dial reads the passphrase of a locked key.
PsDials(c, p) ==
    /\ psUp /\ ~Busy(c) /\ psProfiles[p] = "locked"
    /\ psCall' = [psCall EXCEPT ![c] =
           [op |-> "dial", id |-> p, typed |-> FALSE, phase |-> "secrets", file |-> "secrets",
            payload |-> Whole(psSecrets)]]
    /\ UNCHANGED <<psUp, psProfiles, psSecrets, psLoaded, psDisk, psShown, psCollided>>

(***************************************************************************)
(* save, persist: mkdir, then the whole of the memory is written in place. *)
(***************************************************************************)
PsWrites(c) ==
    /\ At(c, "mkdir")
    /\ psDisk' = [psDisk EXCEPT ![psCall[c].file] = Torn]
    /\ psCall' = [psCall EXCEPT ![c] =
           [psCall[c] EXCEPT !.phase = "writing", !.payload = InMemory(psCall[c].file)]]
    /\ psCollided' = (psCollided \/ OthersWrite(c, psCall[c].file))
    /\ UNCHANGED <<psUp, psProfiles, psSecrets, psLoaded, psShown>>

\* The list of the window takes the profile a request answers with.
ShownAfter(call) ==
    CASE call.op = "create" -> [psShown EXCEPT ![call.id] = psProfiles[call.id]]
      [] call.op = "update" ->
             IF psShown[call.id] \in Auth
             THEN [psShown EXCEPT ![call.id] = psProfiles[call.id]] ELSE psShown
      [] call.op = "remove" -> [psShown EXCEPT ![call.id] = "removed"]
      [] OTHER -> psShown

NeedsSecrets(call) == call.op = "remove" \/ call.typed

PsWritten(c) ==
    /\ At(c, "writing")
    /\ LET call == psCall[c] IN
       /\ \E content \in {call.payload} \cup (IF OthersWrite(c, call.file) THEN {Torn} ELSE {}) :
              psDisk' = [psDisk EXCEPT ![call.file] = content]
       /\ IF call.file = "profiles" /\ NeedsSecrets(call)
          THEN Goes(c, "secrets") /\ UNCHANGED psShown
          ELSE Ends(c) /\ psShown' = ShownAfter(call)
    /\ UNCHANGED <<psUp, psProfiles, psSecrets, psLoaded, psCollided>>

\* A full disk: the request is answered with an error, the memory stays changed.
PsWriteFails(c) ==
    /\ At(c, "mkdir") \/ At(c, "writing")
    /\ Ends(c)
    /\ psCollided' = TRUE
    /\ UNCHANGED <<psUp, psProfiles, psSecrets, psLoaded, psDisk, psShown>>

(***************************************************************************)
(* ensureLoaded and the change of the secrets.                             *)
(***************************************************************************)
PsAsksForSecrets(c) ==
    /\ At(c, "secrets") /\ ~psLoaded
    /\ Goes(c, "reading")
    /\ UNCHANGED <<psUp, psProfiles, psSecrets, psLoaded, psDisk, psShown, psCollided>>

\* A second read lays the file over what was changed since the first one.
PsReads(c) ==
    /\ At(c, "reading") /\ psDisk.secrets # Torn
    /\ psSecrets' = Head(psDisk.secrets) /\ psLoaded' = TRUE
    /\ Goes(c, "secrets")
    /\ psCollided' = (psCollided \/ psLoaded)
    /\ UNCHANGED <<psUp, psProfiles, psDisk, psShown>>

\* A file that does not parse, or no secure storage: the profile is changed already.
PsSecretsFail(c) ==
    /\ At(c, "secrets") \/ At(c, "reading")
    /\ Ends(c)
    /\ psCollided' = (psCollided \/ psCall[c].op # "dial")
    /\ UNCHANGED <<psUp, psProfiles, psSecrets, psLoaded, psDisk, psShown>>

GoesToSecrets(c) ==
    psCall' = [psCall EXCEPT ![c] = [psCall[c] EXCEPT !.phase = "mkdir", !.file = "secrets"]]

\* (mutant) Removing a profile leaves its passphrase.
PsKeepsOnRemoval(c) ==
    /\ At(c, "secrets") /\ psLoaded
    /\ LET call == psCall[c] IN
       IF call.typed
       THEN /\ psSecrets' = psSecrets \cup {call.id}
            /\ GoesToSecrets(c)
            /\ UNCHANGED psShown
       ELSE /\ Ends(c) /\ psShown' = ShownAfter(call)
            /\ UNCHANGED psSecrets
    /\ UNCHANGED <<psUp, psProfiles, psLoaded, psDisk, psCollided>>

\* setPassphrase, deletePassphrase, getPassphrase.
PsKeeps(c) ==
    /\ At(c, "secrets") /\ psLoaded
    /\ LET call == psCall[c]
           next == IF call.op = "remove" THEN psSecrets \ {call.id}
                   ELSE IF call.typed THEN psSecrets \cup {call.id} ELSE psSecrets
       IN /\ psSecrets' = next
          /\ IF call.typed \/ next # psSecrets
             THEN GoesToSecrets(c) /\ UNCHANGED psShown
             ELSE Ends(c) /\ psShown' = ShownAfter(call)
    /\ UNCHANGED <<psUp, psProfiles, psLoaded, psDisk, psCollided>>

(***************************************************************************)
(* The application stops at any moment, and starts when load can parse the *)
(* profiles.                                                               *)
(***************************************************************************)
PsStops ==
    /\ psUp /\ psUp' = FALSE
    /\ psCall' = [c \in Call |-> NoCall]
    /\ psCollided' = (psCollided \/ \E c \in Call : Busy(c) /\ psCall[c].op # "dial")
    /\ UNCHANGED <<psProfiles, psSecrets, psLoaded, psDisk, psShown>>

PsStarts ==
    /\ ~psUp /\ psDisk.profiles # Torn
    /\ psUp' = TRUE
    /\ psProfiles' = Head(psDisk.profiles) /\ psShown' = Head(psDisk.profiles)
    /\ psSecrets' = {} /\ psLoaded' = FALSE
    /\ UNCHANGED <<psDisk, psCall, psCollided>>

(***************************************************************************)
PsInit ==
    /\ psUp = TRUE
    /\ psProfiles = [p \in Profile |-> "none"]
    /\ psSecrets = {} /\ psLoaded = FALSE
    /\ psDisk = [profiles |-> Whole(psProfiles), secrets |-> Whole({})]
    /\ psShown = psProfiles
    /\ psCall = [c \in Call |-> NoCall]
    /\ psCollided = FALSE

\* What follows a collision is not explored.
PsBound == ~psCollided

PsNext ==
    \/ PsStops \/ PsStarts
    \/ \E c \in Call :
           \/ \E p \in Profile, kind \in {"agent", "key"}, typed \in BOOLEAN :
                  PsCreates(c, p, kind, typed) \/ PsUpdates(c, p, kind, typed)
           \/ \E p \in Profile : PsRemoves(c, p) \/ PsDials(c, p)
           \/ PsWrites(c) \/ PsWritten(c) \/ PsWriteFails(c)
           \/ PsAsksForSecrets(c) \/ PsReads(c) \/ PsSecretsFail(c) \/ PsKeeps(c)

(***************************************************************************)
(* Properties.                                                             *)
(***************************************************************************)
List == [Profile -> Auth \cup {"none", "removed"}]

PsTypeOK ==
    /\ psUp \in BOOLEAN /\ psLoaded \in BOOLEAN /\ psCollided \in BOOLEAN
    /\ psProfiles \in List /\ psShown \in List
    /\ psSecrets \subseteq Profile
    /\ psDisk.profiles = Torn \/ Head(psDisk.profiles) \in List
    /\ psDisk.secrets = Torn \/ Head(psDisk.secrets) \subseteq Profile
    /\ \A c \in Call : Busy(c) => psCall[c].phase \in {"mkdir", "writing", "secrets", "reading"}

\* Once every request is answered and none collided, files, memory and window hold the
\* same profiles, a key that needs a passphrase has one, and no passphrase is kept for
\* a profile that is gone - also for requests that overlapped.
PsStoresAgree ==
    psUp /\ ~psCollided /\ (\A c \in Call : ~Busy(c)) =>
        /\ psDisk.profiles = Whole(psProfiles) /\ psShown = psProfiles
        /\ psLoaded => psDisk.secrets = Whole(psSecrets)
        /\ \A p \in Profile : psProfiles[p] = "locked" => p \in Head(psDisk.secrets)
        /\ Head(psDisk.secrets) \subseteq Listed(psProfiles)
===============================================================================
