------------------------------- MODULE Upload -------------------------------
(***************************************************************************)
(* rest/upload.rs: save_multipart() in requests that run at once and save  *)
(* into one directory.                                                     *)
(*                                                                         *)
(* A file name is a sequence of characters ("/" stands for both            *)
(* separators), the content of a file a sequence of pieces, each marked    *)
(* with the upload it comes from.  The file system is external: write()    *)
(* truncates the file and then writes from its start.                      *)
(***************************************************************************)
EXTENDS Naturals, Sequences, FiniteSetsExt

CONSTANTS
    Uploaders,    \* the requests
    Forms,        \* the multipart bodies: sequences of fields
    UpConfigs,    \* the values of UploadConfig
    NameChars,    \* what the names of files are written with
    NoName        \* a field that is not a file

\* A request is no separator: it stands for the uuids generated in it.
ASSUME UploadAssumption ==
    /\ "_" \in NameChars /\ "/" \notin Uploaders
    /\ \A c \in UpConfigs : c.max_size \in Nat
    /\ \A f \in Forms : \A n \in DOMAIN f :
         /\ n \in Nat /\ f[n].size \in Nat
         /\ f[n].name # NoName => f[n].name \in Seq(NameChars)

VARIABLES
    upConfig,   \* the configuration (never changes)
    form,       \* the body of each request (never changes)
    upPc,       \* where each request stands
    upField,    \* the field it is reading
    upData,     \* the pieces it has read of the field
    upAnswer,   \* its answer: "none", "ok" or the error's code
    saved,      \* the uploads it has saved
    disk,       \* the files in the directory
    opened      \* history: which upload has opened which file

uploadVars == <<upConfig, form, upPc, upField, upData, upAnswer, saved, disk, opened>>

UploadInit ==
    /\ upConfig \in UpConfigs
    /\ form \in [Uploaders -> Forms]
    /\ upPc = [r \in Uploaders |-> "next"]
    /\ upField = [r \in Uploaders |-> 0]
    /\ upData = [r \in Uploaders |-> 0]
    /\ upAnswer = [r \in Uploaders |-> "none"]
    /\ saved = [r \in Uploaders |-> {}]
    /\ disk = << >>
    /\ opened = {}

-----------------------------------------------------------------------------
(* File names *)

\* replace("..", "_"), from left to right: the character c after what is done.
AddChar(done, c) ==
    IF c = "." /\ done # <<>> /\ done[Len(done)] = "."
      THEN [done EXCEPT ![Len(done)] = "_"]
      ELSE Append(done, c)

NoDots(name) ==
    LET done[n \in 0 .. Len(name)] == IF n = 0 THEN <<>> ELSE AddChar(done[n - 1], name[n])
    IN  done[Len(name)]

\* replace('/', "_"), replace('\\', "_").
NoSeparators(name) == [i \in DOMAIN name |-> IF name[i] = "/" THEN "_" ELSE name[i]]

\* The name under which an upload is saved; `fresh` is the generated one.
sanitize_filename(name, fresh) ==
    LET clean == NoSeparators(NoDots(name))
    IN  IF \A i \in DOMAIN clean : clean[i] = "_" THEN fresh ELSE clean

\* Path::extension: what follows the last dot of the last component, unless the
\* dot is its first character.
Extension(name) ==
    LET bar == Max({0} \cup {i \in DOMAIN name : name[i] = "/"})
        dot == Max({0} \cup {i \in DOMAIN name : name[i] = "."})
    IN  IF dot > bar + 1 THEN SubSeq(name, dot + 1, Len(name)) ELSE <<>>

-----------------------------------------------------------------------------
(* save_multipart() and save_upload() *)

Part(r) == form[r][upField[r]]
\* "upload_" and a uuid, which no other upload has: the request, once for each field
\* up to this one.
Generated(r) == <<"upload">> \o [i \in 1 .. upField[r] |-> r]

SafeName(r) == sanitize_filename(Part(r).name, Generated(r))
UpGoto(r, at) == upPc' = [upPc EXCEPT ![r] = at]

Fails(r, code) ==
    /\ UpGoto(r, "done")
    /\ upAnswer' = [upAnswer EXCEPT ![r] = code]

\* The validation of the content type and of the extension.
Refused(f) ==
    \/ upConfig.types # {} /\ f.type \notin upConfig.types
    \/ upConfig.extensions # {} /\ Extension(f.name) \notin upConfig.extensions

\* next_field(): the next field that is a file is validated; after the last, the
\* answer is Ok.  A body that cannot be read ends the request.
NextField(r) ==
    /\ upPc[r] = "next"
    /\ LET files == {n \in DOMAIN form[r] : n > upField[r] /\ form[r][n].name # NoName}
       IN  \/ /\ files = {}
              /\ Fails(r, "ok") /\ UNCHANGED <<upField, upData>>
           \/ /\ files # {}
              /\ upField' = [upField EXCEPT ![r] = Min(files)]
              /\ upData' = [upData EXCEPT ![r] = 0]
              /\ IF Refused(form[r][Min(files)])
                   THEN Fails(r, "415")
                   ELSE UpGoto(r, "read") /\ UNCHANGED upAnswer
           \/ Fails(r, "400") /\ UNCHANGED <<upField, upData>>
    /\ UNCHANGED <<upConfig, form, saved, disk, opened>>

\* Mutant: the size is looked at before the chunk is added.
MutantTooLarge(n) == n - 1 > upConfig.max_size

TooLarge(n) == n > upConfig.max_size

\* A chunk is read, or the connection breaks.
ReadChunk(r) ==
    /\ upPc[r] = "read" /\ upData[r] < Part(r).size
    /\ \/ /\ upData' = [upData EXCEPT ![r] = @ + 1]
          /\ IF TooLarge(upData[r] + 1) THEN Fails(r, "413") ELSE UNCHANGED <<upPc, upAnswer>>
       \/ Fails(r, "400") /\ UNCHANGED upData
    /\ UNCHANGED <<upConfig, form, upField, saved, disk, opened>>

\* write() opens and truncates the file; the directory itself (".") cannot be
\* written.
OpenFile(r) ==
    /\ upPc[r] = "read" /\ upData[r] = Part(r).size
    /\ IF SafeName(r) = <<".">>
         THEN Fails(r, "500") /\ UNCHANGED <<disk, opened>>
         ELSE /\ disk' = [n \in DOMAIN disk \cup {SafeName(r)} |->
                            IF n = SafeName(r) THEN <<>> ELSE disk[n]]
              /\ opened' = opened \cup {<<SafeName(r), r, upField[r]>>}
              /\ UpGoto(r, "write") /\ UNCHANGED upAnswer
    /\ UNCHANGED <<upConfig, form, upField, upData, saved>>

\* What the file holds once n pieces of the upload are written over it.
Over(old, r, n) ==
    [i \in 1 .. Max({Len(old), n}) |-> IF i <= n THEN <<r, upField[r]>> ELSE old[i]]

\* The write succeeds, or fails with some of it done; the file is left as it is.
WriteFile(r) ==
    /\ upPc[r] = "write"
    /\ \/ /\ disk' = [disk EXCEPT ![SafeName(r)] = Over(@, r, upData[r])]
          /\ saved' = [saved EXCEPT ![r] = @ \cup {<<SafeName(r), upField[r]>>}]
          /\ UpGoto(r, "next") /\ UNCHANGED upAnswer
       \/ /\ \E n \in 0 .. upData[r] :
               disk' = [disk EXCEPT ![SafeName(r)] = Over(@, r, n)]
          /\ Fails(r, "500") /\ UNCHANGED saved
    /\ UNCHANGED <<upConfig, form, upField, upData, opened>>

UploadNext ==
    \E r \in Uploaders : NextField(r) \/ ReadChunk(r) \/ OpenFile(r) \/ WriteFile(r)

UploadSafety == UploadInit /\ [][UploadNext]_uploadVars

-----------------------------------------------------------------------------
(* Properties *)

\* "Validates size limits and allowed types before writing" (line 63): whatever
\* is in a file was read from a field that the configuration allows, and no file
\* is larger than max_size, whoever else writes it at the same time.
NothingRefused ==
    \A name \in DOMAIN disk :
        /\ Len(disk[name]) <= upConfig.max_size
        /\ \A i \in DOMAIN disk[name] :
             LET by == disk[name][i] IN ~Refused(form[by[1]][by[2]])

\* Files stay in the directory: no name on disk has a separator in it or is one of
\* the two special ones.
NamesAreFlat ==
    \A name \in DOMAIN disk :
        /\ name \notin {<<>>, <<".">>, <<".", ".">>}
        /\ \A i \in DOMAIN name : name[i] # "/"

\* What save_multipart() reports as saved is in the file, whole and unmixed, unless
\* another upload that came to the same name has opened it.
SavedIsThere ==
    \A r \in Uploaders : \A s \in saved[r] :
        (\A o \in opened : o[1] = s[1] => o = <<s[1], r, s[2]>>)
            => disk[s[1]] = [i \in 1 .. form[r][s[2]].size |-> <<r, s[2]>>]

\* The three together: uploads that share a directory keep to the configuration and
\* to their own files.
UploadsSound == NothingRefused /\ NamesAreFlat /\ SavedIsThere
=============================================================================
