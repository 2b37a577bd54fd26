------------------------- MODULE PostingRefinement -------------------------
(***************************************************************************)
(* The posting authority implements the official books: however its        *)
(* requests interleave, stop and start over, the store goes through the    *)
(* states of postings that happen at once.  Settlements and outstanding    *)
(* amounts are left out: those are not serialised (NeverOverSettled).      *)
(***************************************************************************)
EXTENDS PostingAuthority

Books == INSTANCE OfficialBooks WITH
    Doctypes <- POSTED_DOCTYPES,
    Payloads <- {c.body : c \in {e \in Commands : e.kind = "submit"}},
    MayGoNegative <- TRUE \in AllowChoices,
    OnHand <- compute_balance

\* Every step of a request or of the settings is a submit, a cancel or a lock
\* change of the official books, or changes nothing of them: the commit re-
\* checks enough of what the build read, a build that is not stale computed
\* the stock rows and bins a posting at that moment would write, and a cancel
\* undoes what was posted (posting_commit, build_submit, build_cancel).
ImplementsBooks == Books!Spec
=============================================================================
