----------------------------- MODULE LspSession -----------------------------
(***************************************************************************)
(* lsp.c: `vn lsp` and the editor it serves; what the server finds in a    *)
(* text and makes of it is left to the module that uses this one.          *)
(*                                                                         *)
(* The editor and the server exchange messages over two pipes, each in     *)
(* order.  The server handles one message to its end before it reads the   *)
(* next.  It keeps the documents it was told of, and forgets none, for it  *)
(* does not know the message that one is closed.  The editor (external)    *)
(* sends a document's whole text when it is opened and when it changes,    *)
(* underlines what it is told, and applies the edits of a rename unless    *)
(* the text changed since it asked.                                        *)
(*                                                                         *)
(* The other requests (hover, completion, symbols, hints ...) are answered *)
(* from a document alone and change nothing; they are left out.            *)
(*                                                                         *)
(* SessionInit, SessionNext and SessionSpec are named so that a module can *)
(* extend this one and another component's.                                *)
(***************************************************************************)
EXTENDS Sequences, SequencesExt

CONSTANTS Uris,         \* the files that the editor may open
          Sessions,     \* what the files hold, and how many messages the editor sends
          TypedTexts,   \* what the user may make of it
          NewNames,     \* what a name may be changed to
          MaxDocs,      \* 32 in lsp.c
          Diagnostics(_),       \* what is wrong with a text
          Words(_),             \* the names in a text
          MayRename(_, _, _),   \* whether a name of a text may become another
          Renamed(_, _, _),     \* the text with the one for the other
          RunOf(_),             \* what `vn run` makes of a text
          NotRun                \* and before it is asked to

VARIABLES editor,  \* what the editor has of each file, and what it underlines
          asked,   \* the rename the editor waits for, if it does
          files,   \* what the files hold
          left,    \* how many messages the editor may still send
          inbox, outbox,  \* the pipes
          docs,    \* the documents of the server
          ran      \* what `vn run` made of a file

sessionVars == <<editor, asked, files, left, inbox, outbox, docs, ran>>

-----------------------------------------------------------------------------
(* The documents of the server.  One more than there is room for is not    *)
(* kept, and nobody is told.                                               *)
DocAt(ds, uri) == SelectInSeq(ds, LAMBDA d : d.uri = uri)
get_doc(ds, uri) == IF DocAt(ds, uri) = 0 THEN <<>> ELSE <<ds[DocAt(ds, uri)].text>>

(* Mutant: the text of a document that is there stays as it was.           *)
KeepFirst(ds, uri, text) ==
  IF DocAt(ds, uri) # 0 \/ Len(ds) >= MaxDocs THEN ds ELSE Append(ds, [uri |-> uri, text |-> text])

update_doc(ds, uri, text) ==
  CASE DocAt(ds, uri) # 0 -> [ds EXCEPT ![DocAt(ds, uri)].text = text]
    [] DocAt(ds, uri) = 0 /\ Len(ds) < MaxDocs -> Append(ds, [uri |-> uri, text |-> text])
    [] OTHER -> ds

handle_rename(ds, m) ==
  LET doc == get_doc(ds, m.uri)
  IN CASE doc = <<>> -> [kind |-> "nothing", uri |-> m.uri]
       [] doc # <<>> /\ ~MayRename(doc[1], m.name, m.new) -> [kind |-> "refused", uri |-> m.uri]
       [] OTHER -> [kind |-> "edits", uri |-> m.uri, text |-> Renamed(doc[1], m.name, m.new)]

-----------------------------------------------------------------------------
(* The server: the first message of its pipe, to the end.                  *)
Publish(uri, text) ==
  outbox' = Append(outbox, [kind |-> "diagnostics", uri |-> uri, found |-> Diagnostics(text)])

HandleText(m) ==
  /\ m.kind \in {"didOpen", "didChange"}
  /\ docs' = update_doc(docs, m.uri, m.text)
  /\ Publish(m.uri, m.text)

(* The text is not in the message: it is what the server has, if it does.  *)
HandleSave(m) ==
  /\ m.kind = "didSave"
  /\ IF get_doc(docs, m.uri) = <<>> THEN UNCHANGED outbox ELSE Publish(m.uri, get_doc(docs, m.uri)[1])
  /\ UNCHANGED docs

HandleRename(m) ==
  /\ m.kind = "rename"
  /\ outbox' = Append(outbox, handle_rename(docs, m))
  /\ UNCHANGED docs

(* There is nothing for this one in the chain of comparisons.              *)
Ignore(m) ==
  /\ m.kind = "didClose"
  /\ UNCHANGED <<outbox, docs>>

lsp_main ==
  /\ inbox # <<>>
  /\ inbox' = Tail(inbox)
  /\ \/ HandleText(Head(inbox)) \/ HandleSave(Head(inbox))
     \/ HandleRename(Head(inbox)) \/ Ignore(Head(inbox))
  /\ UNCHANGED <<editor, asked, files, left, ran>>

-----------------------------------------------------------------------------
(* The editor.                                                             *)
NotOpen == [open |-> FALSE, text |-> "", shown |-> <<>>]

Send(m) == /\ left > 0
           /\ inbox' = Append(inbox, m)
           /\ left' = left - 1

Open(uri) ==
  /\ uri \in DOMAIN files /\ ~editor[uri].open
  /\ Send([kind |-> "didOpen", uri |-> uri, text |-> files[uri]])
  /\ editor' = [editor EXCEPT ![uri] = [open |-> TRUE, text |-> files[uri], shown |-> <<>>]]
  /\ UNCHANGED <<asked, files, outbox, docs, ran>>

Type(uri) == \E text \in TypedTexts :
  /\ editor[uri].open /\ text # editor[uri].text
  /\ Send([kind |-> "didChange", uri |-> uri, text |-> text])
  /\ editor' = [editor EXCEPT ![uri].text = text]
  /\ UNCHANGED <<asked, files, outbox, docs, ran>>

Save(uri) ==
  /\ editor[uri].open
  /\ Send([kind |-> "didSave", uri |-> uri])
  /\ files' = [files EXCEPT ![uri] = editor[uri].text]
  /\ UNCHANGED <<editor, asked, outbox, docs, ran>>

Close(uri) ==
  /\ editor[uri].open
  /\ Send([kind |-> "didClose", uri |-> uri])
  /\ editor' = [editor EXCEPT ![uri] = NotOpen]
  /\ UNCHANGED <<asked, files, outbox, docs, ran>>

AskRename(uri) == \E name \in Words(editor[uri].text), new \in NewNames :
  /\ editor[uri].open /\ asked = {}
  /\ Send([kind |-> "rename", uri |-> uri, name |-> name, new |-> new])
  /\ asked' = {[uri |-> uri, text |-> editor[uri].text, name |-> name, new |-> new]}
  /\ UNCHANGED <<editor, files, outbox, docs, ran>>

Underline(m) ==
  /\ m.kind = "diagnostics"
  /\ editor' = [editor EXCEPT ![m.uri].shown = m.found]
  /\ UNCHANGED <<asked, inbox, left>>

(* The text is as it was when the editor asked.                            *)
Untouched(uri) == editor[uri].open /\ \E a \in asked : editor[uri].text = a.text

ApplyEdits(m) ==
  /\ m.kind = "edits" /\ Untouched(m.uri)
  /\ editor' = [editor EXCEPT ![m.uri].text = m.text]
  /\ inbox' = Append(inbox, [kind |-> "didChange", uri |-> m.uri, text |-> m.text])
  /\ asked' = {}
  /\ UNCHANGED left

DropAnswer(m) ==
  /\ m.kind \in {"edits", "refused", "nothing"}
  /\ m.kind = "edits" => ~Untouched(m.uri)
  /\ asked' = {}
  /\ UNCHANGED <<editor, inbox, left>>

Receive ==
  /\ outbox # <<>>
  /\ outbox' = Tail(outbox)
  /\ Underline(Head(outbox)) \/ ApplyEdits(Head(outbox)) \/ DropAnswer(Head(outbox))
  /\ UNCHANGED <<files, docs, ran>>

(* The user runs the file as it is in the editor (once, a bound).          *)
Run(uri) ==
  /\ editor[uri].open /\ inbox = <<>> /\ outbox = <<>> /\ ran[uri] = NotRun
  /\ ran' = [ran EXCEPT ![uri] = RunOf(editor[uri].text)]
  /\ UNCHANGED <<editor, asked, files, left, inbox, outbox, docs>>

-----------------------------------------------------------------------------
SessionInit ==
  /\ editor = [uri \in Uris |-> NotOpen]
  /\ asked = {}
  /\ \E session \in Sessions : files = session.files /\ left = session.messages
  /\ inbox = <<>> /\ outbox = <<>> /\ docs = <<>>
  /\ ran = [uri \in Uris |-> NotRun]

SessionNext ==
  \/ \E uri \in Uris : Open(uri) \/ Type(uri) \/ Save(uri) \/ Close(uri) \/ AskRename(uri) \/ Run(uri)
  \/ lsp_main
  \/ Receive

SessionSpec == SessionInit /\ [][SessionNext]_sessionVars

-----------------------------------------------------------------------------
Quiet == inbox = <<>> /\ outbox = <<>>
OpenFiles == {uri \in Uris : editor[uri].open}

(* When nobody has anything to say, each file is underlined where its own  *)
(* text is wrong: what the server analysed is what the editor has, even if *)
(* the file was saved, changed, renamed in, closed and opened again, or    *)
(* not kept for want of room.                                              *)
UnderlinesAreFresh ==
  Quiet => \A uri \in OpenFiles : editor[uri].shown = Diagnostics(editor[uri].text)

(* The edits that the editor takes are those it asked for, of the text     *)
(* that it has: the server answers from its own copy, and more may be      *)
(* typed before the answer is there.                                       *)
EditsAreOfTheText ==
  [][\A uri \in Uris :
       Receive /\ editor'[uri].text # editor[uri].text =>
         \E a \in asked : /\ a.uri = uri /\ a.text = editor[uri].text
                          /\ MayRename(a.text, a.name, a.new)
                          /\ editor'[uri].text = Renamed(a.text, a.name, a.new)]_sessionVars
=============================================================================
