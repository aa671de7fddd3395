--------------------------- MODULE MCFileTransfer ---------------------------
(* What the user types in the model-checking runs of FileTransfer.         *)
EXTENDS FileTransfer

\* Send(n): a file that is read in n chunks. An empty file gives one empty
\* chunk; n = 0 is a file that could not be opened, which send() does not
\* notice: it pushes and stops as for any other.
Cmd(op) == [op |-> op, chunks |-> 0]
Send(n) == [op |-> "send", chunks |-> n]

\* A file of two chunks, so that two packets share the window.
OneFile == {<<Cmd("connect"), Send(2)>>}

\* Two files that could not be opened.
NoFiles == {<<Cmd("connect"), Send(0), Send(0)>>}

\* A window of two packets, and a second file.
Files == OneFile \cup NoFiles

\* The handshakes alone, for which a file that could not be opened will do.
NoFile == {<<Cmd("connect"), Send(0)>>,
           <<Cmd("connect"), Cmd("disconnect"), Cmd("exit")>>}

\* The handshakes around a file, and a session without one.
Handshakes == {<<Cmd("connect"), Send(1)>>, <<Cmd("connect"), Cmd("exit")>>}

\* The user tries again after a command that failed: a connection that is made
\* a second time, and a file sent before there is a connection.
Retries == {<<Cmd("connect"), Cmd("connect")>>,
            <<Send(0), Cmd("connect"), Cmd("connect")>>}

\* More packets than sequence numbers.
LongFile == {<<Cmd("connect"), Send(3)>>}
=============================================================================
