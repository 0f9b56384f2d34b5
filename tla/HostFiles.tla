------------------------------ MODULE HostFiles ------------------------------
(***************************************************************************)
(* The file operations of a Host on one path, one after another: by        *)
(* LocalHost with std::fs, by LocalHost with a script under sudo, and by   *)
(* RemoteCollector with the same script at the far end of an SSH link.     *)
(*                                                                         *)
(* A write takes several steps, and a script whose link or whose parent is *)
(* gone goes on alone: it finds the end of its input early and carries on  *)
(* with what it has (`adrift`).                                            *)
(***************************************************************************)
EXTENDS Naturals, FiniteSets

CONSTANTS Texts,       \* whole contents
          MaxOps,      \* operations of the session
          MaxBreaks,   \* times the link fails, or the process dies
          MaxWrites    \* writes of the path by others

Absent == [text |-> "none", whole |-> TRUE]
Whole(t) == [text |-> t, whole |-> TRUE]
Part(t) == [text |-> t, whole |-> FALSE]

VARIABLES
    site,     \* where the path is and who we are there; never changes
    user,     \* whether this process has cached the name of the user
    root,     \* the cached answer of "are we root": "unasked", "yes", "no"
    content,  \* what is at the path
    op,       \* the operation under way, and how far it is
    temp,     \* the temporary file beside the path, if any
    adrift,   \* what a script without a caller will still move into place
    reply,    \* what the caller was told last
    seen      \* for the properties only

fvars == <<site, user, root, content, op, temp, adrift, reply, seen>>

\* ssh: the host is RemoteCollector.  uid0: the user is root there.  flag:
\* --sudo.  sudoers: sudo -n is let through.  named: $USER says root, which
\* only LocalHost asks.  guarded: only root may read and write the file.
\* closed: only root may look into its directory.
Sites == {s \in [ssh : BOOLEAN, uid0 : BOOLEAN, flag : BOOLEAN, sudoers : BOOLEAN,
                 named : BOOLEAN, guarded : BOOLEAN, closed : BOOLEAN] :
            /\ s.closed => s.guarded
            /\ s.ssh => ~s.named
            /\ ~s.flag => ~s.sudoers
            /\ s.uid0 => s.sudoers = s.flag}

Kinds == {"read", "exists", "write", "remove", "whoami"}
Idle == [kind |-> "none", text |-> "none", priv |-> "User", at |-> "idle"]

-----------------------------------------------------------------------------
(* Who an operation runs as *)

Uid == IF site.uid0 THEN "yes" ELSE "no"

\* detect_root, when a LocalHost is made: `id -u`, or $USER if that fails.
\* A RemoteCollector asks later (Policy).
Detected == IF site.ssh THEN {[root |-> "unasked", unsure |-> FALSE]}
            ELSE {[root |-> Uid, unsure |-> FALSE],
                  [root |-> IF site.named THEN "yes" ELSE "no", unsure |-> TRUE]}

\* Mutant of Rendered: nothing to prefix a command with, so it runs as is.
RenderedPlain(priv) == IF priv = "User" \/ root = "yes" \/ ~site.flag THEN "plain" ELSE "sudo"

\* privileged_command and argv_for.
Rendered(priv) == IF priv = "User" \/ root = "yes" THEN "plain"
                  ELSE IF site.flag THEN "sudo" ELSE "refused"

RunsAs == CASE Rendered(op.priv) = "plain" -> IF site.uid0 THEN "root" ELSE "user"
            [] Rendered(op.priv) = "sudo"  -> IF site.sudoers THEN "root" ELSE "nobody"

\* LocalHost::direct_fs: no shell in between.
Direct == ~site.ssh /\ (op.priv = "User" \/ root = "yes")

Sees == RunsAs = "root" \/ ~site.closed          \* test -e finds what is there
Permitted == RunsAs = "root" \/ ~site.guarded   \* cat, rm, mktemp succeed

-----------------------------------------------------------------------------
(* What an operation answers.  `file` is the file at that instant. *)

\* std::fs reports a lack of permission, which becomes NeedsRoot.  A script
\* tells absence by its own exit status, after test -e; sudo refusing to
\* run it is known by its message.
Denied == IF Direct THEN "needs root" ELSE "failed"

Found == IF Sees THEN content ELSE Absent

\* Mutant of ReadReply: a script that fails has found nothing.
ReadReplyFailedIsAbsent ==
    IF RunsAs = "nobody" THEN "needs root"
    ELSE IF Found = Absent \/ ~Permitted THEN "absent"
    ELSE "text"

\* read_file, and list_dir, to which an absent directory is an empty one.
ReadReply ==
    IF RunsAs = "nobody" THEN "needs root"
    ELSE IF Found = Absent /\ (Sees \/ ~Direct) THEN "absent"
    ELSE IF Permitted THEN "text" ELSE Denied

\* Over SSH anything but success means that the path does not exist; the
\* local script tells a refusal by what is on stderr.
ExistsReply ==
    IF RunsAs = "nobody" THEN IF site.ssh THEN "absent" ELSE "needs root"
    ELSE IF Found = Absent THEN "absent" ELSE "present"

RemoveReply == IF ReadReply = "text" THEN "removed" ELSE ReadReply

Answer == CASE op.kind = "read"   -> ReadReply
            [] op.kind = "exists" -> ExistsReply
            [] op.kind = "remove" -> RemoveReply

-----------------------------------------------------------------------------
(* The operations *)

Says(r) == [kind |-> op.kind, priv |-> op.priv, text |-> op.text, says |-> r]
Silence == [kind |-> "none", priv |-> "User", text |-> "none", says |-> "nothing"]

FInit ==
    /\ site \in Sites
    /\ content \in {Absent} \cup {Whole(t) : t \in Texts}
    /\ user = FALSE
    /\ op = Idle /\ temp = Absent /\ adrift = Absent /\ reply = Silence
    /\ \E d \in Detected :
          /\ root = d.root
          /\ seen = [files |-> {content}, ops |-> 0, breaks |-> 0, writes |-> 0,
                     cut |-> FALSE, unsure |-> d.unsure, as |-> "none"]

\* The caller decides on an operation; the previous one has answered.
Call ==
    /\ op = Idle /\ seen.ops < MaxOps
    /\ \E k \in Kinds, p \in {"User", "Root"}, t \in Texts \cup {"none"} :
          /\ (k = "write") = (t \in Texts)
          /\ k = "whoami" => p = "User"
          /\ op' = [kind |-> k, text |-> t, priv |-> p,
                    at |-> IF k = "whoami" THEN "ask" ELSE "policy"]
    /\ reply' = Silence
    /\ seen' = [seen EXCEPT !.ops = @ + 1, !.files = {content}, !.as = "none"]
    /\ UNCHANGED <<site, user, root, content, temp, adrift>>

Break == seen' = [seen EXCEPT !.breaks = @ + 1]
MayBreak == site.ssh /\ seen.breaks < MaxBreaks

\* RemoteCollector::policy: `id -u`, once.  A probe that fails is kept as
\* "not root".
Policy ==
    /\ op.at = "policy"
    /\ op' = [op EXCEPT !.at = "run"]
    /\ \/ root # "unasked" /\ UNCHANGED <<root, seen>>
       \/ root = "unasked" /\ root' = Uid /\ UNCHANGED seen
       \/ /\ root = "unasked" /\ MayBreak
          /\ root' = "no"
          /\ seen' = [seen EXCEPT !.breaks = @ + 1, !.unsure = TRUE]
    /\ UNCHANGED <<site, user, content, temp, adrift, reply>>

Ends(r) == op' = Idle /\ reply' = Says(r)

\* current_user, and in the same way current_uid, home_dir, os and
\* utc_offset: asked for once, but an answer that failed is not kept.
WhoAmI ==
    /\ op.at = "ask"
    /\ \/ user' = TRUE /\ Ends("known") /\ UNCHANGED seen
       \/ ~user /\ MayBreak /\ Break /\ Ends("transport") /\ UNCHANGED user
    /\ UNCHANGED <<site, root, content, temp, adrift>>

\* Neither root nor --sudo: refused before anything is sent.
Refuse ==
    /\ op.at = "run" /\ Rendered(op.priv) = "refused"
    /\ Ends("needs root")
    /\ UNCHANGED <<site, user, root, content, temp, adrift, seen>>

\* A script looks first, and acts only on what is there.
Test ==
    /\ op.at = "run" /\ op.kind \in {"read", "remove"}
    /\ Rendered(op.priv) # "refused" /\ ~Direct /\ Answer \in {"text", "removed"}
    /\ op' = [op EXCEPT !.at = "act"]
    /\ UNCHANGED <<site, user, root, content, temp, adrift, reply, seen>>

\* cat fails on a file that is gone by now, rm -f does not.
Act ==
    /\ op.at = "act"
    /\ Ends(IF op.kind = "read" /\ content = Absent THEN "failed"
            ELSE IF op.kind = "read" THEN "text" ELSE "removed")
    /\ content' = IF op.kind = "remove" THEN Absent ELSE content
    /\ seen' = [seen EXCEPT !.as = RunsAs, !.files = @ \cup {content'}]
    /\ UNCHANGED <<site, user, root, temp, adrift>>

\* All else is one step.
Run ==
    /\ op.at = "run" /\ op.kind # "write" /\ Rendered(op.priv) # "refused"
    /\ Direct \/ Answer \notin {"text", "removed"}
    /\ Ends(Answer)
    /\ content' = IF Answer = "removed" THEN Absent ELSE content
    /\ seen' = [seen EXCEPT !.as = RunsAs, !.files = @ \cup {content'}]
    /\ UNCHANGED <<site, user, root, temp, adrift>>

\* Mutant of MakeTemp: the text is streamed into the file itself.
MakeTempInPlace ==
    /\ op.at = "run" /\ op.kind = "write" /\ Rendered(op.priv) # "refused"
    /\ RunsAs # "nobody" /\ Permitted
    /\ op' = [op EXCEPT !.at = "stream"]
    /\ temp' = Part(op.text)
    /\ content' = temp'
    /\ seen' = [seen EXCEPT !.as = RunsAs]
    /\ UNCHANGED <<site, user, root, adrift, reply>>

\* mktemp, or OpenOptions::create_new, beside the target.
MakeTemp ==
    /\ op.at = "run" /\ op.kind = "write" /\ Rendered(op.priv) # "refused"
    /\ IF RunsAs = "nobody" \/ ~Permitted
       THEN /\ Ends(IF RunsAs = "nobody" THEN "needs root" ELSE Denied)
            /\ UNCHANGED temp
       ELSE /\ op' = [op EXCEPT !.at = "stream"]
            /\ temp' = Part(op.text)
            /\ UNCHANGED reply
    /\ seen' = [seen EXCEPT !.as = RunsAs]
    /\ UNCHANGED <<site, user, root, content, adrift>>

\* The rest of the contents arrives.
Stream ==
    /\ op.at = "stream"
    /\ op' = [op EXCEPT !.at = "move"]
    /\ temp' = Whole(op.text)
    /\ UNCHANGED <<site, user, root, content, adrift, reply, seen>>

\* The disk is full, say: the temporary file is removed again.
StreamFails ==
    /\ op.at \in {"stream", "move"}
    /\ temp' = Absent
    /\ Ends("failed")
    /\ UNCHANGED <<site, user, root, content, adrift, seen>>

\* rename, or mv -f.
Move ==
    /\ op.at = "move"
    /\ content' = temp /\ temp' = Absent
    /\ Ends("written")
    /\ seen' = [seen EXCEPT !.files = @ \cup {content'}]
    /\ UNCHANGED <<site, user, root, adrift>>

\* The link breaks before a command arrives, between its steps, or before
\* its answer does: the caller is told, a script that has begun sees the
\* end of its input and goes on.  (One such script at a time.)
LinkBreaks ==
    /\ MayBreak /\ adrift = Absent
    /\ op.at \in {"run", "act", "stream", "move"} /\ Rendered(op.priv) # "refused"
    /\ adrift' = temp /\ temp' = Absent
    /\ content' \in {content} \cup (IF op.at = "act" /\ op.kind = "remove" THEN {Absent} ELSE {})
    /\ seen' = [seen EXCEPT !.breaks = @ + 1, !.cut = @ \/ ~temp.whole]
    /\ Ends("transport")
    /\ UNCHANGED <<site, user, root>>

\* The process is killed, or exits while its worker is still busy.  A file
\* that std::fs was writing stays beside the path.  A script, under sudo on
\* this machine or at the far end of the link, reads its input from a pipe,
\* which ends now.  The next process starts afresh.
ProcessDies ==
    /\ op # Idle /\ seen.breaks < MaxBreaks /\ adrift = Absent
    /\ adrift' = IF Direct THEN Absent ELSE temp
    /\ temp' = Absent
    /\ content' \in {content} \cup (IF op.at = "act" /\ op.kind = "remove" THEN {Absent} ELSE {})
    /\ op' = Idle /\ reply' = Silence /\ user' = FALSE
    /\ \E d \in Detected :
          /\ root' = d.root
          /\ seen' = [seen EXCEPT !.breaks = @ + 1, !.unsure = d.unsure,
                                  !.cut = @ \/ (~Direct /\ ~temp.whole)]
    /\ UNCHANGED site

\* The script that is on its own moves what it has into place, or is
\* killed too.
Drift ==
    /\ adrift # Absent
    /\ content' \in {adrift, content}
    /\ seen' = [seen EXCEPT !.files = @ \cup {content'}]
    /\ adrift' = Absent
    /\ UNCHANGED <<site, user, root, op, temp, reply>>

\* Somebody else writes or removes the file, as a whole.
OtherWrites ==
    /\ seen.writes < MaxWrites
    /\ \E c \in ({Absent} \cup {Whole(t) : t \in Texts}) \ {content} :
          /\ content' = c
          /\ seen' = [seen EXCEPT !.files = @ \cup {c}, !.writes = @ + 1]
    /\ UNCHANGED <<site, user, root, op, temp, adrift, reply>>

Rest == op = Idle /\ seen.ops = MaxOps /\ UNCHANGED fvars

FNext == \/ Call \/ WhoAmI \/ Policy \/ Refuse \/ Test \/ Act \/ Run \/ MakeTemp \/ Stream \/ StreamFails
         \/ Move \/ LinkBreaks \/ ProcessDies \/ Drift \/ OtherWrites \/ Rest

FSpec == FInit /\ [][FNext]_fvars

-----------------------------------------------------------------------------
(* Properties *)

\* Host::read_file, exists, remove_file: "absent" is said only of a path
\* that was absent at some time of the call.  Two places say it without
\* knowing: a script in a directory it may not look into, and `exists` over
\* SSH when sudo refuses to run at all.
AbsentIsAbsent ==
    reply.says = "absent" =>
        \/ Absent \in seen.files
        \/ site.closed /\ seen.as = "user"
        \/ site.ssh /\ reply.kind = "exists" /\ seen.as = "nobody"

\* Host::write_file: "a reader only ever sees the whole old file or the
\* whole new one", and a write that is reported as done was in place, as a
\* whole, at some time of the call.  A part of a text is at the path only
\* after a script that was writing it lost its link, or the process that
\* fed it; std::fs never leaves one.
WritesAreWhole ==
    /\ ~content.whole => seen.cut
    /\ reply.says = "written" => Whole(reply.text) \in seen.files

\* LocalHost could not ask for the user and was misled by $USER.
Misled == seen.unsure /\ site.named /\ ~site.uid0

\* An operation that needs root is carried out by root or not at all, and
\* is refused only to somebody who is not root and may not become root.
\* After a probe that failed, and until the process ends, root may be
\* refused; and somebody whose $USER says root passes for it.
RootMeansRoot ==
    reply.priv = "Root" =>
        /\ reply.says \in {"text", "present", "removed", "written", "absent"} =>
              seen.as = "root" \/ (seen.as = "nobody" /\ reply.kind = "exists") \/ Misled
        /\ reply.says = "needs root" => ~site.uid0 \/ seen.unsure
        /\ reply.says = "needs root" => ~site.sudoers \/ Misled

\* The comment on write_file_script: the rename is within a file system "and
\* readers never see a partial file".
NeverPartial == content.whole

=============================================================================
