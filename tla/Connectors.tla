----------------------------- MODULE Connectors -----------------------------
(***************************************************************************)
(* The two database connectors with a worker thread: RedisAsync (the       *)
(* module extended) and LevelAsync, which has the same variables and some  *)
(* of its own.  A behaviour is of one of them.                             *)
(***************************************************************************)
EXTENDS RedisAsync

CONSTANTS
  LevelReq, LevelCasts, LevelStarts   \* bounds of LevelAsync

ASSUME LevelBounds == LevelReq \in 0..MaxReq

VARIABLES which, mContext, mReply, casts, executed

L == INSTANCE LevelAsync WITH MaxReq <- LevelReq, MaxCasts <- LevelCasts, MaxStarts <- LevelStarts

redisVars == <<reqing, conn, broken>>
levelVars == <<mContext, mReply, casts, executed>>

ConnectorsInit ==
  /\ which \in {"redis", "level"}
  /\ IF which = "redis" THEN Init /\ mContext = FALSE /\ mReply = L!NoReply /\ casts = 0 /\ executed = <<>>
     ELSE L!Init /\ reqing = <<>> /\ conn = Closed /\ broken = FALSE

ConnectorsNext ==
  /\ \/ which = "redis" /\ Next /\ UNCHANGED levelVars
     \/ which = "level" /\ L!Next /\ UNCHANGED redisVars
  /\ UNCHANGED which

ConnectorsSpec == ConnectorsInit /\ [][ConnectorsNext]_<<vars, levelVars, which>>

\* Redis: a callback is given the replies to its own commands, and nothing is owed
\* or kept between two requests.  LevelDB: a callback is given the reply of its own
\* request, executed once.
OwnAnswers == IF which = "redis" THEN OwnReplies /\ Drained ELSE L!OwnAnswers

\* Both implement the asynchronous call bridge: requests are handled in the order
\* they were made, responses taken in the order they were given, every call ends at
\* most once, and a late answer of a call that timed out runs no callback.  (LevelBridge
\* is the same formula of the same variables.)
BothBridges == RedisBridge
=============================================================================
