-------------------------------- MODULE Files --------------------------------
(***************************************************************************)
(* Files of pkg/file: DownloadImage (and OpenFile, which calls it) and     *)
(* DecodeBase64, called by concurrent requests with names their callers    *)
(* choose.  Every system call is a step and may fail.                      *)
(*                                                                         *)
(* An image has two blocks: the first tells its type.  A file has the      *)
(* blocks written into it, each of some image; a block nobody has written, *)
(* or that was truncated, is empty.                                        *)
(***************************************************************************)
EXTENDS Naturals, FiniteSets, Sequences

CONSTANTS
    Callers,    \* requests
    Names,      \* names of files under the upload path
    Types,      \* content types
    Whitelist,  \* imageContentTypeWhitelist
    TypeOf      \* the type of the image each caller fetches or decodes

Empty == "empty"
Unknown == "application/octet-stream"

ASSUME FilesAssumption ==
    /\ IsFiniteSet(Callers) /\ IsFiniteSet(Names)
    /\ Whitelist \subseteq Types /\ TypeOf \in [Callers -> Types]
    /\ Empty \notin Callers   \* a block nobody has written is nobody's

VARIABLES
    file,      \* the files: two blocks each, of the image of a caller
    fpc,       \* where each call is
    how,       \* the function called: "download" or "decode"
    name,      \* the file it writes
    body,      \* is the body of its answer open?
    handles,   \* files it has open
    type,      \* the content type it has found
    result,    \* what it returns
    refused,   \* history: calls whose answer's status was not 200
    cut,       \* history: calls whose copy broke off
    blind      \* history: calls that could not read the file they had opened

fvars == <<file, fpc, how, name, body, handles, type, result, refused, cut, blind>>
call == <<how, name>>
history == <<refused, cut, blind>>

Blank == <<Empty, Empty>>

FInit ==
    /\ file = [n \in Names |-> Blank]
    /\ fpc = [c \in Callers |-> "idle"]
    /\ how \in [Callers -> {"download", "decode"}]
    /\ name \in [Callers -> Names]
    /\ body = [c \in Callers |-> FALSE]
    /\ handles = [c \in Callers |-> 0]
    /\ type = [c \in Callers |-> Empty]
    /\ result = [c \in Callers |-> Empty]
    /\ refused = {} /\ cut = {} /\ blind = {}

From(c, f, place) == fpc[c] = place /\ how[c] = f
Go(c, place) == fpc' = [fpc EXCEPT ![c] = place]
Set(f, c, v) == [f EXCEPT ![c] = v]

\* Returning runs what has been deferred: the body is closed once its Close has
\* been deferred, and so are the files.
Return(c, value, bodyLeft, handlesLeft) ==
    /\ Go(c, "returned")
    /\ result' = Set(result, c, value)
    /\ body' = Set(body, c, bodyLeft)
    /\ handles' = Set(handles, c, handlesLeft)

Put(c, block) == [file EXCEPT ![name[c]][block] = c]

-----------------------------------------------------------------------------
(* DownloadImage *)

\* http.Get
Get(c) ==
    /\ From(c, "download", "idle")
    /\ \/ /\ Go(c, "status") /\ body' = Set(body, c, TRUE)
          /\ UNCHANGED <<result, handles>>
       \/ Return(c, "error", FALSE, 0)
    /\ UNCHANGED <<file, call, type, history>>

\* Any status but 200 is an error, returned before the Close of the body is deferred.
Status(c) ==
    /\ From(c, "download", "status")
    /\ \/ Go(c, "create") /\ UNCHANGED <<result, body, handles, refused>>
       \/ Return(c, "error", TRUE, 0) /\ refused' = refused \cup {c}
    /\ UNCHANGED <<file, call, type, cut, blind>>

\* Variant: the Close of the body is deferred after the file has been created.
CreateBeforeDefer(c) ==
    /\ fpc[c] = "create"
    /\ \/ /\ file' = [file EXCEPT ![name[c]] = Blank]
          /\ handles' = Set(handles, c, 1) /\ Go(c, "first")
          /\ UNCHANGED <<result, body>>
       \/ Return(c, "error", how[c] = "download", 0) /\ UNCHANGED file
    /\ UNCHANGED <<call, type, history>>

\* os.Create truncates a file that is there, whoever wrote it.
Create(c) ==
    /\ fpc[c] = "create"
    /\ \/ /\ file' = [file EXCEPT ![name[c]] = Blank]
          /\ handles' = Set(handles, c, 1) /\ Go(c, "first")
          /\ UNCHANGED <<result, body>>
       \/ Return(c, "error", FALSE, 0) /\ UNCHANGED file
    /\ UNCHANGED <<call, type, history>>

\* io.Copy, or f.Write, block by block at the caller's own offset.
Copy(c) ==
    /\ fpc[c] \in {"first", "second"}
    /\ file' = Put(c, IF fpc[c] = "first" THEN 1 ELSE 2)
    /\ Go(c, CASE fpc[c] = "first" -> "second"
               [] fpc[c] = "second" /\ how[c] = "download" -> "open"
               [] OTHER -> "sync")
    /\ UNCHANGED <<call, body, handles, type, result, history>>

\* Variant: DecodeBase64 overlooks a short write as well.
CopyBreaksQuietly(c) ==
    /\ fpc[c] \in {"first", "second"}
    /\ Go(c, IF how[c] = "download" THEN "open" ELSE "sync")
    /\ cut' = IF how[c] = "download" THEN cut \cup {c} ELSE cut
    /\ UNCHANGED <<file, call, body, handles, type, result, refused, blind>>

\* The connection breaks or the disk is full.  DownloadImage overwrites the error
\* of io.Copy with that of os.Open; DecodeBase64 returns it, and leaves the file.
CopyBreaks(c) ==
    /\ fpc[c] \in {"first", "second"}
    /\ IF how[c] = "download"
         THEN /\ Go(c, "open") /\ cut' = cut \cup {c}
              /\ UNCHANGED <<result, body, handles>>
         ELSE Return(c, "error", FALSE, 0) /\ UNCHANGED cut
    /\ UNCHANGED <<file, call, type, refused, blind>>

\* Variant: the file is read through the handle that wrote it.
OpenNotAgain(c) ==
    /\ From(c, "download", "open")
    /\ Go(c, "sniff")
    /\ UNCHANGED <<file, call, body, handles, type, result, history>>

\* os.Open; the deferred Close is for the file that was created.
Open(c) ==
    /\ From(c, "download", "open")
    /\ \/ /\ handles' = Set(handles, c, 2) /\ Go(c, "sniff")
          /\ UNCHANGED <<result, body>>
       \/ Return(c, "error", FALSE, 0)
    /\ UNCHANGED <<file, call, type, history>>

\* GetFileContentType: a file with nothing in it, or one that cannot be read, is an
\* error, returned before the second Close is deferred.
Sniff(c) ==
    LET f == file[name[c]]
    IN /\ From(c, "download", "sniff")
       /\ \/ /\ f # Blank
             /\ type' = Set(type, c, IF f[1] = Empty THEN Unknown ELSE TypeOf[f[1]])
             /\ Return(c, "ok", FALSE, 0) /\ UNCHANGED blind
          \/ Return(c, "error", FALSE, 1) /\ blind' = blind \cup {c} /\ UNCHANGED type
       /\ UNCHANGED <<file, call, refused, cut>>

-----------------------------------------------------------------------------
(* DecodeBase64 *)

\* Decoding, and GetFileContentTypeAndExtention of the decoded data.
Decode(c) ==
    /\ From(c, "decode", "idle")
    /\ \/ /\ TypeOf[c] \in Whitelist
          /\ type' = Set(type, c, TypeOf[c]) /\ Go(c, "create")
          /\ UNCHANGED <<result, body, handles>>
       \/ Return(c, "error", FALSE, 0) /\ UNCHANGED type
    /\ UNCHANGED <<file, call, history>>

Sync(c) ==
    /\ From(c, "decode", "sync")
    /\ \E r \in {"ok", "error"} : Return(c, r, FALSE, 0)
    /\ UNCHANGED <<file, call, type, history>>

FStep(c) == \/ Get(c) \/ Status(c) \/ Create(c) \/ Copy(c) \/ CopyBreaks(c)
            \/ Open(c) \/ Sniff(c) \/ Decode(c) \/ Sync(c)

FNext == \E c \in Callers : FStep(c)

FSpec == FInit /\ [][FNext]_fvars
-----------------------------------------------------------------------------
(* Properties *)

\* The type invariant, with the handles a place says are open.
FilesTypeOK ==
    /\ file \in [Names -> (Callers \cup {Empty}) \X (Callers \cup {Empty})]
    /\ how \in [Callers -> {"download", "decode"}] /\ name \in [Callers -> Names]
    /\ body \in [Callers -> BOOLEAN] /\ handles \in [Callers -> 0..2]
    /\ type \in [Callers -> Types \cup {Empty, Unknown}]
    /\ result \in [Callers -> {Empty, "ok", "error"}]
    /\ \A c \in Callers :
          /\ fpc[c] \in {"idle", "status", "create"} => handles[c] = 0
          /\ fpc[c] \in {"first", "second", "sync", "open"} => handles[c] = 1
          /\ fpc[c] = "sniff" => handles[c] = 2
          /\ result[c] # Empty <=> fpc[c] = "returned"

Alone(c) == \A d \in Callers \ {c} : name[d] # name[c] \/ fpc[d] = "idle"
Succeeded(c) == fpc[c] = "returned" /\ result[c] = "ok"

\* A call that succeeds has written its whole image and found its own type, if no
\* other call uses the name: with one exception, a download that broke off after
\* its first block, which DownloadImage reports as a success, too.  Types that
\* DecodeBase64 returns are white-listed and its own whoever else writes the file.
SuccessMeansWhole ==
    \A c \in Callers : Succeeded(c) =>
        /\ Alone(c) => /\ type[c] = TypeOf[c]
                       /\ file[name[c]] = IF c \in cut THEN <<c, Empty>> ELSE <<c, c>>
        /\ how[c] = "decode" => type[c] = TypeOf[c] /\ type[c] \in Whitelist /\ c \notin cut

\* What a call leaves open when it returns: the body of an answer whose status was
\* not 200, and the file it could not sniff.  Nothing else leaks.
LeaksAreKnown ==
    \A c \in Callers : fpc[c] = "returned" =>
        /\ body[c] <=> c \in refused
        /\ handles[c] = (IF c \in blind THEN 1 ELSE 0)
=============================================================================
