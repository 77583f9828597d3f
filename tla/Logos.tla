------------------------------- MODULE Logos --------------------------------
(*****************************************************************************)
(* The logos of clubs: upload_logo and remove_logo of                        *)
(* src/server/src/domain/clubs.rs, over the files of src/server/src/media.rs.*)
(* A file is named after its club and its type, so that an upload replaces   *)
(* only a logo of the same type; the row says which one is shown.            *)
(*****************************************************************************)
EXTENDS Membership

CONSTANT LogoTypes   \* the types validate_image lets in

VARIABLES
    logo,     \* the logo column of a club: a type, or None
    files,    \* the files in store: clubs and types
    \* History, read by the properties only.
    smudged   \* clubs where a removal overlapped an upload, or stopped

logoVars == <<logo, files, smudged>>

-----------------------------------------------------------------------------

Uploading == {"putLogo", "setLogo"}
Removing == {"readLogo", "dropLogo", "clearLogo"}
LogoLabels == Uploading \cup Removing

LogoLocals == [user |-> None, club |-> None, key |-> None]

LogoInit ==
    /\ logo = [c \in Clubs |-> None]
    /\ files = {} /\ smudged = {}

AtLogo(c, labels) == \E q \in InFlightAt(labels) : loc[q].club = c

\* A handler accepted while a request of the other kind is in flight.
BeginLogo(r, u, c, label, key, others) ==
    /\ Asks("logo")
    /\ SignedIn(u) /\ IsAdmin(c, u)
    /\ Start(r, label, [LogoLocals EXCEPT !.user = u, !.club = c, !.key = key])
    /\ smudged' = IF AtLogo(c, others) THEN smudged \cup {c} ELSE smudged
    /\ UNCHANGED <<logo, files>>

UploadLogo(r, u, c, type) == BeginLogo(r, u, c, "putLogo", type, Removing)

\* Storage::put.
PutLogo(r) ==
    /\ pc[r] = "putLogo"
    /\ files' = files \cup {<<loc[r].club, loc[r].key>>}
    /\ Proceed(r, "setLogo")
    /\ UNCHANGED <<logo, smudged>>

\* An UPDATE of a club that is gone changes nothing.
Show(c, key) == logo' = IF Live(c) THEN [logo EXCEPT ![c] = key] ELSE logo

SetLogo(r) ==
    /\ pc[r] = "setLogo"
    /\ Show(loc[r].club, loc[r].key)
    /\ Done(r)
    /\ UNCHANGED <<files, smudged>>

RemoveLogo(r, u, c) == BeginLogo(r, u, c, "readLogo", None, Uploading)

ReadLogo(r) ==
    LET c == loc[r].club
    IN  /\ pc[r] = "readLogo"
        /\ IF Live(c) /\ logo[c] # None
             THEN Goto(r, "dropLogo", [loc[r] EXCEPT !.key = logo[c]])
             ELSE Proceed(r, "clearLogo")
        /\ UNCHANGED logoVars

\* Storage::delete: a file that is gone already is no error.
DropLogo(r) ==
    /\ pc[r] = "dropLogo"
    /\ files' = files \ {<<loc[r].club, loc[r].key>>}
    /\ Proceed(r, "clearLogo")
    /\ UNCHANGED <<logo, smudged>>

\* Mutant: the file is deleted and the row still names it.
ClearNothing(r) ==
    /\ pc[r] = "clearLogo"
    /\ Done(r)
    /\ UNCHANGED logoVars

ClearLogo(r) ==
    /\ pc[r] = "clearLogo"
    /\ Show(loc[r].club, None)
    /\ Done(r)
    /\ UNCHANGED <<files, smudged>>

StopLogo(r) ==
    /\ pc[r] \in LogoLabels
    /\ Drop(r)
    /\ smudged' = IF pc[r] \in Removing THEN smudged \cup {loc[r].club} ELSE smudged
    /\ UNCHANGED <<logo, files>>

BeginLogoCall(r) ==
    \E u \in Users, c \in Clubs :
        \/ \E type \in LogoTypes : UploadLogo(r, u, c, type)
        \/ RemoveLogo(r, u, c)

LogoStep(r) == PutLogo(r) \/ SetLogo(r) \/ ReadLogo(r) \/ DropLogo(r) \/ ClearLogo(r)

-----------------------------------------------------------------------------
LogosTypeOK ==
    /\ logo \in [Clubs -> LogoTypes \cup {None}]
    /\ files \subseteq Clubs \X LogoTypes
    /\ smudged \subseteq Clubs

\* The logo a club shows is in store, however uploads overlap, replace each
\* other or stop, unless a removal overlapped an upload, stopped, or is at it
\* (upload_logo, remove_logo).
LogosAreThere ==
    \A c \in Clubs \ smudged : Live(c) =>
        \/ logo[c] = None
        \/ <<c, logo[c]>> \in files
        \/ AtLogo(c, {"clearLogo"})
=============================================================================
