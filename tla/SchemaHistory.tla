--------------------------- MODULE SchemaHistory ---------------------------
(***************************************************************************)
(* The 22 migrations as statements, see Migrations.  Indexes of a table    *)
(* are one statement, and so are the seeds of a table.                     *)
(***************************************************************************)
EXTENDS Sequences

Table(t)        == <<[do |-> "table", table |-> t, part |-> "", uses |-> ""]>>
Indexed(t)      == <<[do |-> "index", table |-> t, part |-> "index", uses |-> ""]>>
Column(t, c)    == <<[do |-> "column", table |-> t, part |-> c, uses |-> ""]>>
Fill(t, p, c)   == <<[do |-> "write", table |-> t, part |-> p, uses |-> c]>>
Drop(t)         == <<[do |-> "drop", table |-> t, part |-> "", uses |-> ""]>>
TableIndexed(t) == Table(t) \o Indexed(t)

V1 ==
  Table("datasets") \o TableIndexed("media_items") \o TableIndexed("job_history")
    \o TableIndexed("checkpoints") \o TableIndexed("templates") \o Table("sample_images")
    \o TableIndexed("step_metrics") \o TableIndexed("job_datasets")

V2 ==
  Column("media_items", "has_mask") \o Column("media_items", "has_masked")
    \o Column("media_items", "has_masked_caption")
    \o Fill("media_items", "masks", "has_mask")
    \o Fill("media_items", "masked", "has_masked")
    \o Fill("media_items", "masked captions", "has_masked_caption")

V3 == Column("media_items", "has_overlay")

ProjectTables ==
  Table("projects") \o TableIndexed("captioning_templates")
    \o TableIndexed("masking_templates") \o TableIndexed("training_templates")
    \o Table("project_preferences") \o Table("project_datasets") \o Table("saved_concepts")
    \o Column("job_history", "project_id")
    \o <<[do |-> "index", table |-> "job_history", part |-> "by project", uses |-> "project_id"]>>
    \o Drop("templates")

ProjectSeeds ==
  Fill("captioning_templates", "defaults", "") \o Fill("masking_templates", "sam3", "")
    \o Fill("project_preferences", "General", "")

V4 == ProjectTables \o ProjectSeeds

V5 == Column("job_history", "pid")
V6 == Column("job_history", "completed_epochs")
V7 == Column("datasets", "trigger_word") \o Column("datasets", "tags") \o Column("datasets", "notes")
V8 == Column("media_items", "enabled")

V9 ==
  Table("definition_stats") \o Column("job_history", "peak_vram_train_mb")
    \o Column("job_history", "peak_vram_cache_mb") \o Column("job_history", "total_run_bytes")

V10 == Column("job_history", "priority")
V11 == Column("captioning_templates", "wildcard")
V12 == Drop("saved_concepts")
V13 == Fill("captioning_templates", "api defaults", "")
V14 == Fill("masking_templates", "rembg", "") \o Fill("masking_templates", "readonly", "")

V15 ==
  Column("datasets", "kind") \o Column("media_items", "control_count")
    \o Column("media_items", "control_info")

V16 ==
  Column("media_items", "fps") \o Column("media_items", "duration_s")
    \o Column("media_items", "has_audio") \o Column("media_items", "video_codec")
    \o Column("media_items", "trim_start_s") \o Column("media_items", "trim_end_s")
    \o Column("media_items", "frame_count_estimated") \o Column("media_items", "clip_warnings")

V17 == Fill("job_history", "definition_id", "")
V18 == Fill("job_history", "ema_enabled", "")
V19 == Column("job_history", "lora_on_disk") \o Fill("job_history", "files on disk", "lora_on_disk")
V20 == Column("step_metrics", "active_layers")

V21 ==
  TableIndexed("adaptive_preset_templates") \o Fill("adaptive_preset_templates", "factory", "")

V22 == Column("datasets", "preview_pinned")

History ==
  <<V1, V2, V3, V4, V5, V6, V7, V8, V9, V10, V11, V12, V13, V14, V15, V16, V17, V18, V19,
    V20, V21, V22>>
=============================================================================
