CONSTANTS
    PAGE_SIZE <- MCPageSize
    INDEX_OFS <- MCIndexOfs
    NodeSizes <- MCNodeSizes
    MaxNodes <- MCMaxNodes
SPECIFICATION Spec
INVARIANT TypeOK HandlesResolve IndexPartition NodesPacked
