----------------------------- MODULE TaskKinds ------------------------------
(***************************************************************************)
(* The four kinds of work: what distinguishes their Celery tasks and their *)
(* endpoints once the common skeleton is modelled by UploadLifecycle.      *)
(***************************************************************************)
EXTENDS Naturals, TLC

\* Tasks: the queue each is routed to, its max_retries, and whether it calls
\* cleanup in its except clause too.
parse_document_task == [queue |-> "ingestion", maxRetries |-> 2, cleansTwice |-> TRUE]
process_media_task == [queue |-> "media", maxRetries |-> 1, cleansTwice |-> FALSE]
index_tabular_task == [queue |-> "index", maxRetries |-> 2, cleansTwice |-> FALSE]
reasoning_task == [queue |-> "reasoning", maxRetries |-> 1, cleansTwice |-> FALSE]

Tasks == {parse_document_task, process_media_task, index_tabular_task, reasoning_task}

\* Endpoints: the task each publishes, and whether its answer contains the
\* size of the stored file.
ingest_document == [task |-> parse_document_task, stats |-> TRUE]
ingest_media == [task |-> process_media_task, stats |-> TRUE]
ingest_tabular == [task |-> index_tabular_task, stats |-> TRUE]
reason_query == [task |-> reasoning_task, stats |-> FALSE]

Endpoints == {ingest_document, ingest_media, ingest_tabular, reason_query}

task_queues == {t.queue : t \in Tasks}
RetriesOn == [q \in task_queues |-> (CHOOSE t \in Tasks : t.queue = q).maxRetries]
TwiceCleaning == {t.queue : t \in {x \in Tasks : x.cleansTwice}}
UnstatedQueues == {e.task.queue : e \in {x \in Endpoints : ~x.stats}}
=============================================================================
