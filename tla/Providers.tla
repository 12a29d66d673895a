----------------------------- MODULE Providers ------------------------------
(***************************************************************************)
(* What the adapters of the providers make of a refusal (map_error of      *)
(* openai.rs, gemini.rs, google.rs, azure.rs, elevenlabs.rs, cartesia.rs   *)
(* and deepgram.rs): the reason, which decides whether the breaker waits,  *)
(* a quota is waited out or the engine stays blocked until the user acts,  *)
(* and the field of the request that was refused (adapt).                  *)
(*                                                                         *)
(* A reply is its status and the signs the adapters look for in its body   *)
(* (ErrorBody): codes and words, not texts.                                *)
(***************************************************************************)
EXTENDS Naturals, Sequences

Statuses == {400, 401, 402, 403, 404, 422, 429, 500, 503}
Signs == {"voice",          \* it mentions a voice
          "unknown voice",  \* it says that the voice is none it has
          "quota",          \* a code or words for a spent or daily quota
          "plan",           \* a code for what the plan lacks
          "key",            \* the key is not valid
          "model",          \* it mentions the model
          "field",          \* it names an optional field of the request
          "day", "minute"}  \* the id of a quota per day, per minute
Reply == [status : Statuses, body : SUBSET Signs]

Says(r, sign) == sign \in r.body
(* A code or phrase of a voice mentions a voice.                           *)
parse(r) == [r EXCEPT !.body = IF "unknown voice" \in @ THEN @ \cup {"voice"} ELSE @]

(* A `match`: the first row whose condition holds.                         *)
Match(rows) == rows[CHOOSE i \in DOMAIN rows : rows[i][1] /\ \A j \in 1..(i - 1) : ~rows[j][1]][2]
Is(r, codes) == r.status \in codes
Server(r) == r.status \in 500..599

openai(r) == Match(<<
  <<Is(r, {401, 403}), "auth">>, <<Is(r, {402}), "quota">>,
  <<Is(r, {429}) /\ Says(r, "quota"), "quota">>, <<Is(r, {429}), "rate_limited">>,
  <<Is(r, {400, 404, 422}) /\ Says(r, "voice"), "bad_voice">>,
  <<Is(r, {400, 404, 415, 422}), "bad_config">>, <<Server(r), "server">>,
  <<r.status \in 400..499, "bad_config">>, <<TRUE, "server">> >>)

(* A quota id decides; without one the words do.                           *)
daily_or_spend(r) == Says(r, "day") \/ (~Says(r, "minute") /\ Says(r, "quota"))
gemini(r) == Match(<<
  <<Is(r, {400, 401, 403}) /\ Says(r, "key"), "auth">>, <<Is(r, {401, 403}), "auth">>,
  <<Is(r, {402}), "quota">>,
  <<Is(r, {400}) /\ ~Says(r, "field") /\ Says(r, "unknown voice"), "bad_voice">>,
  <<Is(r, {429}) /\ daily_or_spend(r), "quota">>, <<Is(r, {429}), "rate_limited">>,
  <<Server(r), "server">>, <<TRUE, "bad_config">> >>)

google(r) == Match(<<
  <<Is(r, {400}) /\ Says(r, "key"), "auth">>, <<Is(r, {401, 403}), "auth">>,
  <<Is(r, {400}) /\ Says(r, "unknown voice"), "bad_voice">>,
  <<Is(r, {429}) /\ Says(r, "quota"), "quota">>, <<Is(r, {429}), "rate_limited">>,
  <<Server(r), "server">>, <<TRUE, "bad_config">> >>)

(* Azure names no voice: the voice list known tells.                       *)
azure(r) == Match(<<
  <<Is(r, {401, 403}), "auth">>, <<Is(r, {400}) /\ Says(r, "unknown voice"), "bad_voice">>,
  <<Is(r, {429}), "rate_limited">>, <<Server(r), "server">>, <<TRUE, "bad_config">> >>)

elevenlabs(r) == Match(<<
  <<Is(r, {401}) /\ Says(r, "quota"), "quota">>, <<Is(r, {401}), "auth">>,
  <<Is(r, {402}), "quota">>,
  <<Is(r, {403}) /\ Says(r, "unknown voice"), "bad_voice">>,
  <<Is(r, {403}) /\ Says(r, "plan"), "bad_config">>, <<Is(r, {403}), "auth">>,
  <<Is(r, {400, 404}) /\ Says(r, "unknown voice"), "bad_voice">>,
  <<Is(r, {404}) /\ ~Says(r, "model") /\ Says(r, "voice"), "bad_voice">>,
  <<Is(r, {429}), "rate_limited">>, <<Server(r), "server">>, <<TRUE, "bad_config">> >>)

cartesia(r) == Match(<<
  <<Is(r, {401}), "auth">>, <<Is(r, {402}), "quota">>,
  <<Is(r, {403}) /\ Says(r, "plan"), "bad_config">>, <<Is(r, {403}), "auth">>,
  <<Says(r, "quota"), "quota">>,
  <<Is(r, {404, 422}) /\ Says(r, "unknown voice"), "bad_voice">>,
  <<Is(r, {404}) /\ ~Says(r, "plan") /\ Says(r, "voice"), "bad_voice">>,
  <<Is(r, {429}), "rate_limited">>, <<Server(r), "server">>, <<TRUE, "bad_config">> >>)

(* The field that may be refused is the speed; the voice is a model.  The  *)
(* fault: the model is looked at first.                                    *)
deepgram_model_first(r) == Match(<<
  <<Is(r, {401, 403}), "auth">>, <<Is(r, {402}), "quota">>,
  <<Is(r, {400}) /\ Says(r, "model"), "bad_voice">>,
  <<Is(r, {429}), "rate_limited">>, <<Server(r), "server">>, <<TRUE, "bad_config">> >>)
deepgram(r) == Match(<<
  <<Is(r, {401, 403}), "auth">>, <<Is(r, {402}), "quota">>,
  <<Is(r, {400}) /\ Says(r, "field"), "bad_config">>,
  <<Is(r, {400}) /\ Says(r, "model"), "bad_voice">>,
  <<Is(r, {429}), "rate_limited">>, <<Server(r), "server">>, <<TRUE, "bad_config">> >>)

Adapters == {"openai", "gemini", "google", "azure", "elevenlabs", "cartesia", "deepgram"}
map_error(a, reply) ==
  LET r == parse(reply)
  IN  CASE a = "openai" -> openai(r) [] a = "gemini" -> gemini(r) [] a = "google" -> google(r)
        [] a = "azure" -> azure(r) [] a = "elevenlabs" -> elevenlabs(r)
        [] a = "cartesia" -> cartesia(r) [] a = "deepgram" -> deepgram(r)

(* refused_param and adapt, of a request that carried the field.           *)
refused_param(a, r) ==
  /\ Says(r, "field")
  /\ CASE a = "openai" -> map_error(a, r) = "bad_config"
       [] a = "gemini" -> Is(r, {400, 404})
       [] a = "deepgram" -> Is(r, {400})
       [] OTHER -> FALSE
adapts(a, r) == refused_param(a, r) /\ map_error(a, r) = "bad_config"

(* daily_wait, in hours: until 08:00 UTC, at least an hour, or what Google *)
(* asks for.                                                               *)
DAY == 24
RESET == 8
Later(a, b) == IF a > b THEN a ELSE b
daily_wait(given, now) ==
  LET left == (RESET + DAY - (now % DAY)) % DAY
  IN  Later(given, Later(IF left = 0 THEN DAY ELSE left, 1))

is_transient(reason) == reason \in {"rate_limited", "network", "timeout", "server"}

-----------------------------------------------------------------------------
VARIABLE refusal   \* an adapter and a reply

ProvidersInit == refusal \in [adapter : Adapters, reply : Reply]
OneRefusal == [adapter |-> "azure", reply |-> [status |-> 500, body |-> {}]]

(* "`waiting` while it will try again by itself, `unavailable` while the   *)
(* user must change something": a refusal that passes (too many requests,  *)
(* trouble of the server) never blocks an engine until the user acts; one  *)
(* of the key is never tried again by itself unless it is about a quota;   *)
(* and a field the adapter can leave out never blocks the engine or its    *)
(* voice (map_error and adapt of the adapters).  A quota of a day is not   *)
(* tried again before the day is over (daily_wait).                        *)
RefusalsSorted ==
  LET a == refusal.adapter
      r == refusal.reply
      why == map_error(a, r)
  IN  /\ Is(r, {429, 500, 503}) => is_transient(why) \/ why = "quota"
      /\ Is(r, {401}) /\ ~Says(r, "quota") => why = "auth"
      /\ a \in {"gemini", "deepgram"} /\ Is(r, {400}) /\ Says(r, "field") /\ ~Says(r, "key") => adapts(a, r)
      /\ a = "gemini" /\ Is(r, {429}) /\ Says(r, "day") =>
           \A now \in 0..(2 * DAY - 1), given \in {0, DAY + 1} :
             \E reset \in (now + 1)..(now + daily_wait(given, now)) : reset % DAY = RESET
=============================================================================
