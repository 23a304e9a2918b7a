------------------------------ MODULE Msu1Music ------------------------------
(***************************************************************************)
(* The MSU-1 music driver (src/mods/mmx_msu1_plugin.c) between the game's  *)
(* sound commands and the chip: a song is started by a hook, commands of   *)
(* the sound protocol fade, duck and resume it, and a frame callback moves *)
(* the fade.  The chip itself is external; a song may have no file, and a  *)
(* song that does not loop ends by itself.                                 *)
(***************************************************************************)
EXTENDS Integers

CONSTANTS
    Songs, Absent,    \* what music commands name; those with no file
    Looping,          \* the songs that mmx_msu1_track_loops
    NoSong,
    FullVolume, DuckVolume, FadeStep

VARIABLES
    driven,                 \* the mod is active and the chip is there
    song, volume, playing,   \* the chip: selected song, volume, PLAY and
    repeat,                  \* REPEAT
    fade, fadeVolume,        \* g_mmx_msu1_fade_state and _volume
    player,                  \* who plays the last song asked for
    fading                   \* history: the song the fade out began for

musicVars == <<driven, song, volume, playing, repeat, fade, fadeVolume, player, fading>>
chip == <<song, playing, repeat>>

Error == song \in Absent

MusicInit ==
    /\ driven \in BOOLEAN
    /\ song = NoSong /\ volume = 0 /\ playing = FALSE /\ repeat = FALSE
    /\ fade = "idle" /\ fadeVolume = FullVolume
    /\ player = "none" /\ fading = NoSong

SetVolume(v) == fadeVolume' = v /\ volume' = v

(* Mutant: a fade under way goes on for the next song. *)
CommandKeepsFade(s) ==
    /\ driven
    /\ song' = s /\ playing' = (s \notin Absent) /\ repeat' = (s \in Looping)
    /\ player' = IF s \in Absent THEN "spc" ELSE "msu"
    /\ UNCHANGED <<driven, fade, fadeVolume, volume, fading>>

(* mmx_msu1_music_command, from the hooks at the game's music routine: when *)
(* it does not claim the song, the original sound program plays it.         *)
Command(s) ==
    /\ driven
    /\ song' = s
    /\ IF s \notin Absent
       THEN /\ playing' = TRUE /\ repeat' = (s \in Looping)
            /\ fade' = "idle" /\ SetVolume(FullVolume)
            /\ player' = "msu"
       ELSE /\ playing' = FALSE /\ repeat' = FALSE
            /\ player' = "spc"
            /\ UNCHANGED <<fade, fadeVolume, volume>>
    /\ UNCHANGED <<driven, fading>>
CommandInert ==
    /\ ~driven
    /\ player' = "spc"
    /\ UNCHANGED <<driven, chip, volume, fade, fadeVolume, fading>>

(* The commands of the sound protocol that the driver follows.              *)
Resume ==
    /\ driven /\ ~Error
    /\ playing' = (song # NoSong) /\ repeat' = (song # NoSong)
    /\ fade' = "in" /\ SetVolume(0)
    /\ UNCHANGED <<driven, song, player, fading>>
FadeOut ==
    /\ driven
    /\ IF playing
       THEN /\ fade' = "out" /\ fadeVolume' = FullVolume
            /\ fading' = song
            /\ UNCHANGED <<playing, repeat>>
       ELSE /\ playing' = FALSE /\ repeat' = FALSE
            /\ UNCHANGED <<fade, fadeVolume, fading>>
    /\ UNCHANGED <<driven, song, volume, player>>
Loud(v) ==
    /\ driven
    /\ fade' = "idle" /\ SetVolume(v)
    /\ UNCHANGED <<driven, chip, player, fading>>
Unduck == Loud(FullVolume)
Duck == Loud(DuckVolume)

(* mmx_msu1_tick, once a frame.                                             *)
TickOut ==
    /\ driven /\ fade = "out"
    /\ IF fadeVolume <= FadeStep
       THEN /\ SetVolume(0) /\ fade' = "idle"
            /\ playing' = FALSE /\ repeat' = FALSE
       ELSE /\ SetVolume(fadeVolume - FadeStep)
            /\ UNCHANGED <<fade, playing, repeat>>
    /\ UNCHANGED <<driven, song, player, fading>>
TickIn ==
    /\ driven /\ fade = "in"
    /\ IF fadeVolume >= FullVolume - FadeStep
       THEN SetVolume(FullVolume) /\ fade' = "idle"
       ELSE SetVolume(fadeVolume + FadeStep) /\ UNCHANGED fade
    /\ UNCHANGED <<driven, chip, player, fading>>

(* The chip reaches the end of a song that it does not repeat.              *)
SongEnds ==
    /\ playing /\ ~repeat
    /\ playing' = FALSE
    /\ UNCHANGED <<driven, song, repeat, volume, fade, fadeVolume, player, fading>>

MusicNext ==
    \/ \E s \in Songs : Command(s)
    \/ CommandInert
    \/ Resume \/ FadeOut \/ Unduck \/ Duck
    \/ TickOut \/ TickIn \/ SongEnds

MusicSpec == MusicInit /\ [][MusicNext]_musicVars

-----------------------------------------------------------------------------
(* A song is claimed only if the chip has it; a song that plays with no     *)
(* fade under way is full or ducked, never left silent or half faded by a   *)
(* fade that another command cut off; and a fade out stops the song it was  *)
(* asked for, not one that was started meanwhile.                           *)
MusicHeard ==
    /\ player = "msu" => ~Error
    /\ playing /\ fade = "idle" => volume \in {FullVolume, DuckVolume}
    /\ playing /\ fade = "out" => fading = song
=============================================================================
