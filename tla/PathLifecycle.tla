--------------------------- MODULE PathLifecycle ----------------------------
(***************************************************************************)
(* What the document store promises about a path, with no tables, tokens,  *)
(* locks, connections or messages.  A path is absent, live or dead.  While *)
(* it is live its history only grows.  A dead path keeps the final content *)
(* of its last edition as the proof clients compare with, until retention  *)
(* forgets it.  Every time a path comes to life it is a new edition.       *)
(* DocSync implements this module.                                         *)
(***************************************************************************)
EXTENDS Naturals

CONSTANTS
    Docs,           \* paths (doc_uuid) of one vault
    Contents,       \* histories a document can have
    Unreadable,     \* a stored history that does not decode
    Nothing         \* a path without a history

VARIABLES
    status,         \* status[d]: "absent", "live" or "dead"
    content,        \* content[d]: the history of the live or the last edition
    editions        \* editions[d]: how many editions d has had

lifeVars == <<status, content, editions>>

LifeInit ==
    /\ status \in [Docs -> {"absent", "live", "dead"}]
    /\ content \in [Docs -> {Unreadable, Nothing} \cup Contents]
    /\ editions \in [Docs -> Nat]

\* A path comes to life as a new edition, from absence or by a replacement.
Establish(d) ==
    /\ status[d] # "live"
    /\ status' = [status EXCEPT ![d] = "live"]
    /\ \E s \in Contents : content' = [content EXCEPT ![d] = s]
    /\ editions' = [editions EXCEPT ![d] = @ + 1]

\* A live history takes in more changes; renewing its identity is allowed.
Merge(d) ==
    /\ status[d] = "live"
    /\ content[d] # Unreadable
    /\ \E s \in Contents :
          content[d] \subseteq s /\ content' = [content EXCEPT ![d] = s]
    /\ \/ UNCHANGED editions
       \/ editions' = [editions EXCEPT ![d] = @ + 1]
    /\ UNCHANGED status

\* Deleting keeps the final content as proof; only a history that cannot be
\* read leaves the proof open.
Bury(d) ==
    /\ status' = [status EXCEPT ![d] = "dead"]
    /\ \/ content' = content
       \/ /\ content[d] = Unreadable
          /\ \E s \in {Nothing} \cup Contents : content' = [content EXCEPT ![d] = s]
    /\ UNCHANGED editions

\* Retention forgets a dead path.
Forget(d) ==
    /\ status[d] = "dead"
    /\ status' = [status EXCEPT ![d] = "absent"]
    /\ content' = [content EXCEPT ![d] = Nothing]
    /\ UNCHANGED editions

LifeNext == \E d \in Docs : Establish(d) \/ Merge(d) \/ Bury(d) \/ Forget(d)

LifeSpec == LifeInit /\ [][LifeNext]_lifeVars
=============================================================================
