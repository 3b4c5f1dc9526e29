---------------------------- MODULE MCCallLoop ------------------------------
(***************************************************************************)
(* Small calls.  A caller says one of three things, which a confirmation      *)
(* reads as a yes, a no and neither.                                        *)
(***************************************************************************)
EXTENDS CallLoop

ClearReplies ==
    {<<Word("yes"), Marked("please", "stop")>>, <<Word("okay"), Marked("cancel", "stop")>>,
     <<Marked("tomorrow", "stop")>>}
=============================================================================
